---- MODULE Spec2Model ----
(***************************************************************************)
(* ContentWise-AI: the RAG session manager (services/rag_service.py),     *)
(* followed by the quiz generator and scorer (services/quiz_generator.py) *)
(* and the transcript poll (src/video_processor.py), each with its own    *)
(* specification.                                                          *)
(*                                                                         *)
(* A RAGService object is a record of its attributes.  The vector-store   *)
(* library is modelled by what the service asks of it: a store per        *)
(* persist directory (and one in-process store for clients made without a *)
(* directory), each holding named collections of chunks.  Every call into *)
(* the embedding / LLM / vector-store libraries either succeeds or raises;*)
(* which one is an input of the action that makes the call.               *)
(***************************************************************************)
EXTENDS Integers, Sequences, FiniteSets, TLC

\* ------------------------------------------------------------------ bounds
MaxLen == 1          \* blocks in a transcript
MaxChunks == 2       \* chunks a collection may hold (guards the builds)

\* -------------------------------------------------------- program constants
max_retries == 3     \* _cleanup_temp_dir_with_retry(max_retries=3, ...)
delay == 1           \* _cleanup_temp_dir_with_retry(..., delay=1)
DefaultK == 5        \* search_kwargs={"k": 5}
Unknown == -1        \* count = "Unknown" (a chunk count that is not a number)

\* --------------------------------------------------------------- optionals
\* Python's None and a present value v, as sequences of length 0 and 1.
None == << >>
Some(v) == << v >>
Val(o) == o[1]

Sessions == {1, 2}               \* RAGService objects of the process
Ephemeral == 0                   \* the store of clients made without a directory
Dirs == 1..Cardinality(Sessions) \* directories mkdtemp can hand out
Stores == {Ephemeral} \cup Dirs
Ids == 1..Cardinality(Sessions)  \* uuid4 values

\* A transcript is a sequence of blocks; "ws" is a block of whitespace only.
Blocks == {"ws", "a", "b"}
Transcripts == UNION {[1..n -> Blocks] : n \in 0..MaxLen}

NoContent == "No video content available for querying. Please analyze a video first."
NoSimilar == "No video content available for similarity search."
QueryError == "Error processing your query"
SearchError == "Error in similarity search"

VARIABLES
  svc,      \* svc[s]: the attributes of RAGService object s
  coll,     \* coll[<<store, name>>]: the chunks of a collection
  dirs,     \* the temporary directories that exist on disk
  uuids,    \* how many uuid4 values were drawn
  mkdtemps, \* how many directories mkdtemp created
  last,     \* the last completed call and what it returned
  response,     \* what the LLM answers to the quiz prompt
  quiz,         \* the Quiz in hand
  user_answers, \* the answers submitted for it
  poll,         \* the frame of _wait_for_transcript
  post,         \* the SocialMediaPost in hand
  shuffled,     \* the Quiz shuffle_quiz_options returned
  ui,           \* st.session_state of one browser session
  race          \* two threads inside the methods of one RAGService

vars == << svc, coll, dirs, uuids, mkdtemps,
           response, quiz, user_answers, poll,
           post, shuffled, ui, race, last >>

\* The attributes before __init__ ran (lines 24-32, with session_id unset).
Unbuilt ==
  [ session_id |-> None, temp_dir |-> None, client |-> None,
    embedding_model |-> None, llm |-> None, text_splitter |-> None,
    vectorstore |-> None, retrieval_qa_chain |-> None, collection |-> None ]

\* f"video_transcript_{session_id.replace('-', '_')}": one name per id.
collection_name(session_id) == session_id

\* RecursiveCharacterTextSplitter.split_text: the non-blank pieces, in order.
RECURSIVE split_text(_)
split_text(t) ==
  IF t = << >> THEN << >>
  ELSE IF Head(t) = "ws" THEN split_text(Tail(t))
       ELSE << Head(t) >> \o split_text(Tail(t))

Min(a, b) == IF a <= b THEN a ELSE b

\* --------------------------------------------------------------- exceptions
\* The result of a try block: what it returns (ret), whether an exception
\* leaves it (exc), whether one was handled inside it (caught).
Returns(ret) == [ ret |-> ret, exc |-> FALSE, caught |-> FALSE ]
Raises == [ ret |-> "exception", exc |-> TRUE, caught |-> FALSE ]

\* A method without its handler: the exception leaves it.
Except_missing(t, sentinel) == t

\* "except Exception as e: log; return sentinel", the outermost handler of
\* every public method.
Except(t, sentinel) ==
  IF t.exc THEN [t EXCEPT !.ret = sentinel, !.exc = FALSE, !.caught = TRUE]
  ELSE t

\* ------------------------------------------------------------------ cleanup
\* What the environment does to one removal attempt: the directory goes, it
\* stays (a file is still locked; rmtree ignores errors), or the attempt raises.
RmOutcomes == {"removed", "locked", "raise"}
RmScripts == [1..max_retries -> RmOutcomes]

\* The for loop of _cleanup_temp_dir_with_retry from iteration `attempt` on:
\* sleep, rmtree, return True when the directory is gone; the except clause
\* logs and the loop goes on.
RECURSIVE retry_loop(_, _, _, _, _)
retry_loop(attempt, td, ds, rm, sleeps) ==
  IF attempt >= max_retries
  THEN [ temp_dir |-> Some(td), dirs |-> ds, attempts |-> attempt,
         sleeps |-> sleeps, ret |-> FALSE, exc |-> FALSE ]
  ELSE LET slept == Append(sleeps, delay * (attempt + 1)) IN
       IF rm[attempt + 1] = "removed"
       THEN [ temp_dir |-> None, dirs |-> ds \ {td}, attempts |-> attempt + 1,
              sleeps |-> slept, ret |-> TRUE, exc |-> FALSE ]
       ELSE retry_loop(attempt + 1, td, ds, rm, slept)

\* The same loop without its except clause: a raising attempt ends it.
RECURSIVE retry_loop_no_except(_, _, _, _, _)
retry_loop_no_except(attempt, td, ds, rm, sleeps) ==
  IF attempt >= max_retries
  THEN [ temp_dir |-> Some(td), dirs |-> ds, attempts |-> attempt,
         sleeps |-> sleeps, ret |-> FALSE, exc |-> FALSE ]
  ELSE LET slept == Append(sleeps, delay * (attempt + 1)) IN
       IF rm[attempt + 1] = "removed"
       THEN [ temp_dir |-> None, dirs |-> ds \ {td}, attempts |-> attempt + 1,
              sleeps |-> slept, ret |-> TRUE, exc |-> FALSE ]
       ELSE IF rm[attempt + 1] = "raise"
       THEN [ temp_dir |-> Some(td), dirs |-> ds, attempts |-> attempt + 1,
              sleeps |-> slept, ret |-> FALSE, exc |-> TRUE ]
       ELSE retry_loop_no_except(attempt + 1, td, ds, rm, slept)

cleanup_temp_dir_no_except(td, ds, rm) ==
  retry_loop_no_except(0, td, ds, rm, << >>)

\* _cleanup_temp_dir_with_retry
cleanup_temp_dir_with_retry(td, ds, rm) == retry_loop(0, td, ds, rm, << >>)

\* client.delete_collection(name) on the store of `client`.
delete_collection(c, store, name) == [c EXCEPT ![<< store, name >>] = << >>]

\* client.reset(), or the directory's removal: every collection of the store goes.
reset(c, store) ==
  [k \in DOMAIN c |-> IF k[1] = store THEN << >> ELSE c[k]]

\* The outcomes of the calls cleanup_safely makes on an object with attributes
\* r.  A call it does not make has no outcome to choose; an attempt after the
\* one that removed the directory is never made; the attempts that fail in
\* one cleanup fail the same way.
Scripts ==
  { rm \in RmScripts :
      /\ \A i \in 1..(max_retries - 1) : rm[i] = "removed" => rm[i + 1] = "removed"
      /\ \A i, j \in 1..max_retries :
           (rm[i] # "removed" /\ rm[j] # "removed") => rm[i] = rm[j] }
CleanupEnvs(r, ds, scripts) ==
  [ collErr : IF r.vectorstore # None THEN BOOLEAN ELSE {FALSE},
    delOk   : IF r.vectorstore # None /\ r.client # None THEN BOOLEAN ELSE {TRUE},
    resetOk : IF r.client # None THEN BOOLEAN ELSE {TRUE},
    rm      : IF r.temp_dir # None /\ Val(r.temp_dir) \in ds
              THEN scripts ELSE {[i \in 1..max_retries |-> "removed"]} ]

clear_handles_skipped(r) == r

\* Lines 293-296 with line 294 left out: the chain outlives its store.
clear_handles_keeping_chain(r) ==
  [r EXCEPT !.vectorstore = None, !.client = None, !.collection = None]

\* Lines 293-296 of cleanup_safely.
clear_handles(r) ==
  [r EXCEPT !.vectorstore = None, !.retrieval_qa_chain = None,
            !.client = None, !.collection = None]

\* cleanup_safely.  env: whether reading the collection's name raises, whether
\* delete_collection and reset succeed, and the removal attempts' outcomes.
cleanup_safely(r, c, ds, env) ==
  LET hasVs == r.vectorstore # None
      \* lines 267-280
      c1 == IF hasVs /\ ~env.collErr /\ r.client # None /\ env.delOk
            THEN delete_collection(c, Val(r.client), Val(r.vectorstore).name)
            ELSE c
      vs1 == IF hasVs /\ ~env.collErr THEN None ELSE r.vectorstore
      \* lines 282-289
      c2 == IF r.client # None /\ env.resetOk THEN reset(c1, Val(r.client)) ELSE c1
      \* lines 291-292
      tries == r.temp_dir # None /\ Val(r.temp_dir) \in ds
      rt == IF tries
            THEN cleanup_temp_dir_with_retry(Val(r.temp_dir), ds, env.rm)
            ELSE [ temp_dir |-> r.temp_dir, dirs |-> ds, attempts |-> 0,
                   sleeps |-> << >>, ret |-> FALSE, exc |-> FALSE ]
      c3 == IF tries /\ rt.temp_dir = None THEN reset(c2, Val(r.temp_dir)) ELSE c2
      r1 == [r EXCEPT !.vectorstore = vs1, !.client = None,
                      !.temp_dir = rt.temp_dir]
      \* lines 293-296, not reached when line 292 raises (line 298 handles it)
      r2 == IF rt.exc THEN r1 ELSE clear_handles(r1)
  IN [ svc |-> r2, coll |-> c3, dirs |-> rt.dirs,
       tried |-> tries, attempts |-> rt.attempts, sleeps |-> rt.sleeps,
       removed |-> rt.ret,
       caught |-> \/ rt.exc
                  \/ hasVs /\ env.collErr
                  \/ hasVs /\ ~env.collErr /\ r.client # None /\ ~env.delOk
                  \/ r.client # None /\ ~env.resetOk
                  \/ tries /\ \E i \in 1..rt.attempts : env.rm[i] = "raise",
       exc |-> FALSE ]

\* cleanup(): an alias of cleanup_safely.
cleanup(r, c, ds, env) == cleanup_safely(r, c, ds, env)

\* ------------------------------------------------------------- construction
uuid4_repeats(drawn) == 1

\* uuid.uuid4(): a value no earlier draw returned.
uuid4(drawn) == drawn + 1

\* tempfile.mkdtemp: a directory that did not exist before.
mkdtemp(made) == made + 1

\* How far __init__'s try block gets: 0 = to its end, n = its n-th step raises
\* (1 mkdtemp, 2 PersistentClient, 3 embeddings, 4 LLM, 5 text splitter).
InitFailures == 0..5

\* The try block of RAGService.__init__ (lines 34-67), to the step that raises.
init_try(drawn, made, ds, failAt) ==
  LET passed(n) == failAt = 0 \/ failAt > n
      d == mkdtemp(made)
  IN [ svc |-> [ Unbuilt EXCEPT
                   !.session_id = Some(uuid4(drawn)),
                   !.temp_dir = IF passed(1) THEN Some(d) ELSE None,
                   !.client = IF passed(2) THEN Some(d) ELSE None,
                   !.embedding_model =
                      IF passed(3) THEN Some("models/embedding-001") ELSE None,
                   !.llm = IF passed(4) THEN Some([temperature |-> 7]) ELSE None,
                   !.text_splitter = IF passed(5) THEN Some("splitter") ELSE None ],
       dirs |-> IF passed(1) THEN ds \cup {d} ELSE ds,
       made |-> IF passed(1) THEN made + 1 ELSE made ]

\* RAGService.__init__: the try block, and cleanup_safely when it raised.
init(drawn, made, c, ds, failAt, env) ==
  LET t == init_try(drawn, made, ds, failAt) IN
  IF failAt = 0
  THEN [ svc |-> t.svc, coll |-> c, dirs |-> t.dirs, made |-> t.made,
         caught |-> FALSE ]
  ELSE LET cl == cleanup_safely(t.svc, c, t.dirs, env)
       IN [ svc |-> cl.svc, coll |-> cl.coll, dirs |-> cl.dirs,
            made |-> t.made, caught |-> TRUE ]

\* ------------------------------------------------------------------- index
\* The store a Chroma object works on: its client's, else its directory's
\* (a client the library makes for it), else the in-process one.
chroma_store(client, persist_directory) ==
  IF client # None THEN Val(client)
  ELSE IF persist_directory # None THEN Val(persist_directory)
  ELSE Ephemeral

\* Chroma.from_documents: get or create the collection, add the documents.
from_documents(c, store, name, chunks) ==
  [c EXCEPT ![<< store, name >>] = @ \o chunks]

\* RetrievalQA.from_chain_type over vectorstore.as_retriever(k).
RetrievalQA(prompt, k, chain_type, vs) ==
  [ prompt |-> prompt, k |-> k, chain_type |-> chain_type, vs |-> vs ]

\* The outcomes of the library calls of create_vector_database: the first
\* from_documents, persist(), the fallback from_documents, the chain's
\* construction.  A call that is not made has no outcome to choose.
AllOk == [fd1 |-> TRUE, persistOk |-> TRUE, fd2 |-> TRUE, chainOk |-> TRUE]
CreateEnvs ==
  { e \in [ fd1 : BOOLEAN, persistOk : BOOLEAN, fd2 : BOOLEAN, chainOk : BOOLEAN ] :
      /\ ~e.fd1 => e.persistOk
      /\ (e.fd1 /\ e.persistOk) => e.fd2
      /\ (~(e.fd1 /\ e.persistOk) /\ ~e.fd2) => e.chainOk }

no_chunks_never(chunks) == FALSE

\* "if not chunks", line 78.
no_chunks(chunks) == chunks = << >>

\* create_vector_database with the chain dropped when the build fails.
create_vector_database_dropping(r, c, transcript, env) ==
  LET name == collection_name(Val(r.session_id))
      at(rr, cc, t) == [ svc |-> rr, coll |-> cc ] @@ t
  IN IF r.text_splitter = None
     THEN at([r EXCEPT !.retrieval_qa_chain = None], c, Raises)
     ELSE
       LET chunks == split_text(transcript) IN
       IF chunks = << >>
       THEN at([r EXCEPT !.retrieval_qa_chain = None], c, Returns(FALSE))
       ELSE
         LET st1 == chroma_store(r.client, r.temp_dir)
             st2 == chroma_store(None, r.temp_dir)
             firstOk == env.fd1 /\ env.persistOk
             c1 == IF env.fd1 THEN from_documents(c, st1, name, chunks) ELSE c
             c2 == IF ~firstOk /\ env.fd2
                   THEN from_documents(c1, st2, name, chunks) ELSE c1
             vs == IF ~firstOk /\ env.fd2 THEN Some([store |-> st2, name |-> name])
                   ELSE IF env.fd1 THEN Some([store |-> st1, name |-> name])
                   ELSE r.vectorstore
         IN IF (~firstOk /\ ~env.fd2) \/ ~env.chainOk
            THEN at([r EXCEPT !.vectorstore = vs, !.retrieval_qa_chain = None],
                    c2, [Raises EXCEPT !.caught = ~firstOk])
            ELSE at([r EXCEPT !.vectorstore = vs,
                              !.retrieval_qa_chain =
                                 Some(RetrievalQA("rag_template", DefaultK,
                                                  "stuff", Val(vs)))],
                    c2, [Returns(TRUE) EXCEPT !.caught = ~firstOk])

\* The try block of create_vector_database, lines 76-128.
create_vector_database_try(r, c, transcript, env) ==
  LET name == collection_name(Val(r.session_id))
      at(rr, cc, t) == [ svc |-> rr, coll |-> cc ] @@ t
  IN IF r.text_splitter = None
     THEN at(r, c, Raises)                 \* None has no split_text
     ELSE
       LET chunks == split_text(transcript) IN
       IF no_chunks(chunks)
       THEN at(r, c, Returns(FALSE))
       ELSE
         LET st1 == chroma_store(r.client, r.temp_dir)
             st2 == chroma_store(None, r.temp_dir)
             \* lines 93-100
             c1 == IF env.fd1 THEN from_documents(c, st1, name, chunks) ELSE c
             r1 == IF env.fd1
                   THEN [r EXCEPT !.vectorstore = Some([store |-> st1, name |-> name])]
                   ELSE r
             firstOk == env.fd1 /\ env.persistOk
             \* lines 102-109
             c2 == IF ~firstOk /\ env.fd2
                   THEN from_documents(c1, st2, name, chunks) ELSE c1
             r2 == IF ~firstOk /\ env.fd2
                   THEN [r1 EXCEPT !.vectorstore = Some([store |-> st2, name |-> name])]
                   ELSE r1
         IN IF (~firstOk /\ ~env.fd2) \/ ~env.chainOk
            THEN at(r2, c2, [Raises EXCEPT !.caught = ~firstOk])
            ELSE at([r2 EXCEPT !.retrieval_qa_chain =
                       Some(RetrievalQA("rag_template", DefaultK, "stuff",
                                        Val(r2.vectorstore)))],
                    c2, [Returns(TRUE) EXCEPT !.caught = ~firstOk])

\* create_vector_database
create_vector_database(r, c, transcript, env) ==
  Except(create_vector_database_try(r, c, transcript, env), FALSE)

\* vectorstore._collection.count()
count(c, vs) == Len(c[<< vs.store, vs.name >>])

\* The try block of get_database_stats with the count's failure not handled
\* where it occurs.
get_database_stats_outer_only(r, c, countOk) ==
  IF r.vectorstore = None
  THEN Returns([status |-> "No database created", chunks |-> 0])
  ELSE IF ~countOk THEN Raises
  ELSE Returns([ status |-> "Active",
                 chunks |-> count(c, Val(r.vectorstore)),
                 session_id |-> Val(r.session_id),
                 has_retrieval_chain |-> r.retrieval_qa_chain # None ])

\* The try block of get_database_stats, lines 216-232.  countOk: whether the
\* count can be obtained.
get_database_stats_try(r, c, countOk) ==
  IF r.vectorstore = None
  THEN Returns([status |-> "No database created", chunks |-> 0])
  ELSE [ Returns([ status |-> "Active",
                   chunks |-> IF countOk THEN count(c, Val(r.vectorstore))
                              ELSE Unknown,
                   session_id |-> Val(r.session_id),
                   has_retrieval_chain |-> r.retrieval_qa_chain # None ])
         EXCEPT !.caught = ~countOk ]

\* get_database_stats
get_database_stats(r, c, countOk) ==
  Except(get_database_stats_try(r, c, countOk),
         [status |-> "Error", chunks |-> 0])

\* update_chain_parameters with the vector store made anew before the chain.
update_chain_parameters_reindex(r, temperature, chain_type, k, chainOk) ==
  IF r.vectorstore = None
  THEN [svc |-> r] @@ Returns(FALSE)
  ELSE
    LET vs == [store |-> Ephemeral, name |-> collection_name(Val(r.session_id))]
        kk == IF k # None THEN Val(k) ELSE DefaultK
        ct == IF chain_type # None THEN Val(chain_type) ELSE "stuff"
    IN [svc |-> [r EXCEPT !.vectorstore = Some(vs),
                          !.retrieval_qa_chain =
                             Some(RetrievalQA("default", kk, ct, vs))]]
       @@ Returns(TRUE)

\* update_chain_parameters with an omitted k or chain_type taken from the
\* chain the object holds.
update_chain_parameters_remembering(r, temperature, chain_type, k, chainOk) ==
  IF r.vectorstore = None
  THEN [svc |-> r] @@ Returns(FALSE)
  ELSE IF temperature # None /\ r.llm = None
  THEN [svc |-> r] @@ Raises
  ELSE
    LET r1 == IF temperature # None
              THEN [r EXCEPT !.llm = Some([temperature |-> Val(temperature)])]
              ELSE r
        old == r.retrieval_qa_chain
        kk == IF k # None THEN Val(k)
              ELSE IF old # None THEN Val(old).k ELSE DefaultK
        ct == IF chain_type # None THEN Val(chain_type)
              ELSE IF old # None THEN Val(old).chain_type ELSE "stuff"
    IN IF ~chainOk
       THEN [svc |-> r1] @@ Raises
       ELSE [svc |-> [r1 EXCEPT !.retrieval_qa_chain =
                        Some(RetrievalQA("default", kk, ct, Val(r1.vectorstore)))]]
            @@ Returns(TRUE)

\* The try block of update_chain_parameters, lines 240-258.  None: the
\* argument was omitted.
update_chain_parameters_try(r, temperature, chain_type, k, chainOk) ==
  IF r.vectorstore = None
  THEN [svc |-> r] @@ Returns(FALSE)
  ELSE IF temperature # None /\ r.llm = None
  THEN [svc |-> r] @@ Raises               \* None has no temperature
  ELSE
    LET r1 == IF temperature # None
              THEN [r EXCEPT !.llm = Some([temperature |-> Val(temperature)])]
              ELSE r
        kk == IF k # None THEN Val(k) ELSE DefaultK
        ct == IF chain_type # None THEN Val(chain_type) ELSE "stuff"
    IN IF ~chainOk
       THEN [svc |-> r1] @@ Raises
       ELSE [svc |-> [r1 EXCEPT !.retrieval_qa_chain =
                        Some(RetrievalQA("default", kk, ct, Val(r1.vectorstore)))]]
            @@ Returns(TRUE)

\* update_chain_parameters
update_chain_parameters(r, temperature, chain_type, k, chainOk) ==
  Except(update_chain_parameters_try(r, temperature, chain_type, k, chainOk), FALSE)

\* ----------------------------------------------------------------- queries
\* query_video_content without the test of line 137: None is called.
query_video_content_no_guard(r, return_sources, chainOk) ==
  IF r.retrieval_qa_chain = None \/ ~chainOk
  THEN [handed |-> r.retrieval_qa_chain # None] @@ Raises
  ELSE [handed |-> TRUE]
       @@ Returns(IF return_sources THEN "answer+sources" ELSE "answer")

\* The try block of query_video_content, lines 137-146.  chainOk: whether
\* running the chain succeeds.
query_video_content_try(r, return_sources, chainOk) ==
  IF r.retrieval_qa_chain = None
  THEN [handed |-> FALSE] @@ Returns(NoContent)
  ELSE IF ~chainOk
  THEN [handed |-> TRUE] @@ Raises
  ELSE [handed |-> TRUE]
       @@ Returns(IF return_sources THEN "answer+sources" ELSE "answer")

\* query_video_content
query_video_content(r, return_sources, chainOk) ==
  Except(query_video_content_try(r, return_sources, chainOk), QueryError)

\* query_with_custom_retriever_params
query_with_custom_retriever_params(r, chainOk) ==
  Except(IF r.vectorstore = None THEN Returns(NoContent)
         ELSE IF ~chainOk THEN Raises
         ELSE Returns("answer"),
         QueryError)

\* get_similar_chunks.  searchOk: whether similarity_search succeeds.
get_similar_chunks(r, c, k, searchOk) ==
  Except(IF r.vectorstore = None THEN Returns(NoSimilar)
         ELSE IF ~searchOk THEN Raises
         ELSE IF Min(k, count(c, Val(r.vectorstore))) = 0
         THEN Returns("No similar content found.")
         ELSE Returns("chunks"),
         SearchError)

\* ------------------------------------------------------------------ actions
\* A completed call: the method, the object, what it returned, whether an
\* exception left it (raised) or was handled inside it (caught), and what is
\* particular to the method.
Call(op, s, ret, raised, caught, info) ==
  [ op |-> op, sess |-> s, ret |-> ret, raised |-> raised, caught |-> caught,
    info |-> info ]

Init ==
  /\ svc = [s \in Sessions |-> Unbuilt]
  /\ coll = [k \in Stores \X Ids |-> << >>]
  /\ dirs = {}
  /\ uuids = 0
  /\ mkdtemps = 0
  /\ last = Call("none", 0, FALSE, FALSE, FALSE, << >>)
  /\ response = None
  /\ quiz = None
  /\ user_answers = None
  /\ poll = None
  /\ post = None /\ shuffled = None /\ ui = None /\ race = None

Built(s) == svc[s].session_id # None

\* RAGService()
Construct(s, failures, scripts) ==
  /\ ~Built(s)
  /\ \E failAt \in failures :
     \E env \in LET t == init_try(uuids, mkdtemps, dirs, failAt)
                IN CleanupEnvs(t.svc, t.dirs, scripts) :
       LET o == init(uuids, mkdtemps, coll, dirs, failAt, env) IN
       /\ svc' = [svc EXCEPT ![s] = o.svc]
       /\ coll' = o.coll
       /\ dirs' = o.dirs
       /\ uuids' = uuids + 1
       /\ mkdtemps' = o.made
       /\ last' = Call("init", s, FALSE, FALSE, o.caught, [failAt |-> failAt])
       /\ UNCHANGED << response, quiz, user_answers, poll,
                    post, shuffled, ui, race >>

CreateVectorDatabase(s, transcripts, envs) ==
  /\ Built(s)
  /\ \E t \in transcripts :
     \E env \in IF svc[s].text_splitter = None \/ split_text(t) = << >>
                THEN {AllOk}
                ELSE envs :
       LET o == create_vector_database(svc[s], coll, t, env) IN
       /\ \A k \in DOMAIN o.coll : Len(o.coll[k]) <= MaxChunks
       /\ svc' = [svc EXCEPT ![s] = o.svc]
       /\ coll' = o.coll
       /\ last' = Call("create_vector_database", s, o.ret, o.exc, o.caught,
                       [ transcript |-> t,
                         fresh |-> svc[s].vectorstore = None
                                   /\ svc[s].retrieval_qa_chain = None,
                         prev |-> IF /\ last.op = "create_vector_database"
                                     /\ last.sess = s /\ last.ret = TRUE
                                     /\ ~last.caught
                                  THEN Some(last.info.transcript) ELSE None ])
       /\ UNCHANGED << dirs, uuids, mkdtemps,
                    response, quiz, user_answers, poll,
                    post, shuffled, ui, race >>

QueryVideoContent(s) ==
  /\ Built(s)
  /\ \E return_sources \in BOOLEAN, chainOk \in BOOLEAN :
       LET o == query_video_content(svc[s], return_sources, chainOk) IN
       /\ last' = Call("query_video_content", s, o.ret, o.exc, o.caught,
                       [handed |-> o.handed])
       /\ UNCHANGED << svc, coll, dirs, uuids, mkdtemps,
                    response, quiz, user_answers, poll,
                    post, shuffled, ui, race >>

QueryWithCustomRetrieverParams(s) ==
  /\ Built(s)
  /\ \E chainOk \in BOOLEAN :
       LET o == query_with_custom_retriever_params(svc[s], chainOk) IN
       /\ last' = Call("query_with_custom_retriever_params", s, o.ret, o.exc,
                       o.caught, << >>)
       /\ UNCHANGED << svc, coll, dirs, uuids, mkdtemps,
                    response, quiz, user_answers, poll,
                    post, shuffled, ui, race >>

GetSimilarChunks(s) ==
  /\ Built(s)
  /\ \E k \in {1, 3}, searchOk \in BOOLEAN :
       LET o == get_similar_chunks(svc[s], coll, k, searchOk) IN
       /\ last' = Call("get_similar_chunks", s, o.ret, o.exc, o.caught,
                       << >>)
       /\ UNCHANGED << svc, coll, dirs, uuids, mkdtemps,
                    response, quiz, user_answers, poll,
                    post, shuffled, ui, race >>

GetDatabaseStats(s) ==
  /\ Built(s)
  /\ \E countOk \in BOOLEAN :
       LET o == get_database_stats(svc[s], coll, countOk) IN
       /\ last' = Call("get_database_stats", s, o.ret, o.exc, o.caught,
                       [countOk |-> countOk])
       /\ UNCHANGED << svc, coll, dirs, uuids, mkdtemps,
                    response, quiz, user_answers, poll,
                    post, shuffled, ui, race >>

Temperatures == {None, Some(2)}
ChainTypes == {None, Some("map_reduce")}
Ks == {None, Some(3)}

UpdateChainParameters(s, temperatures, chain_types, ks) ==
  /\ Built(s)
  /\ \E temperature \in temperatures, chain_type \in chain_types, k \in ks,
        chainOk \in BOOLEAN :
       LET o == update_chain_parameters(svc[s], temperature, chain_type, k, chainOk) IN
       /\ svc' = [svc EXCEPT ![s] = o.svc]
       /\ last' = Call("update_chain_parameters", s, o.ret, o.exc, o.caught,
                       [temperature |-> temperature,
                        chain_type |-> chain_type, k |-> k])
       /\ UNCHANGED << coll, dirs, uuids, mkdtemps,
                    response, quiz, user_answers, poll,
                    post, shuffled, ui, race >>

Cleanup(s, scripts) ==
  /\ Built(s)
  /\ \E env \in CleanupEnvs(svc[s], dirs, scripts) :
       LET o == cleanup(svc[s], coll, dirs, env) IN
       /\ svc' = [svc EXCEPT ![s] = o.svc]
       /\ coll' = o.coll
       /\ dirs' = o.dirs
       /\ last' = Call("cleanup", s, FALSE, o.exc, o.caught,
                       [ tried |-> o.tried,
                         attempts |-> o.attempts, sleeps |-> o.sleeps,
                         removed |-> o.removed, rm |-> env.rm,
                         again |-> last.op = "cleanup" /\ last.sess = s ])
       /\ UNCHANGED << uuids, mkdtemps,
                    response, quiz, user_answers, poll,
                    post, shuffled, ui, race >>

\* One RAGService object and every outcome of every library call.
Next ==
  \E s \in {1} :
    \/ Construct(s, InitFailures, Scripts)
    \/ CreateVectorDatabase(s, Transcripts, CreateEnvs)
    \/ QueryVideoContent(s)
    \/ QueryWithCustomRetrieverParams(s)
    \/ GetSimilarChunks(s)
    \/ GetDatabaseStats(s)
    \/ UpdateChainParameters(s, Temperatures, ChainTypes, Ks)
    \/ Cleanup(s, Scripts)

Spec == Init /\ [][Next]_vars

\* Two RAGService objects of one process, their calls interleaved.  The
\* construction succeeds or fails before the client exists, a build is given
\* one of two transcripts, and a removal succeeds at once or never.
IsoScripts ==
  { [i \in 1..max_retries |-> "removed"], [i \in 1..max_retries |-> "locked"] }
IsoEnvs == {AllOk, [AllOk EXCEPT !.fd1 = FALSE]}
NextIso ==
  \E s \in Sessions :
    \/ Construct(s, {0, 2}, IsoScripts)
    \/ CreateVectorDatabase(s, {<< "a" >>}, IsoEnvs)
    \/ QueryVideoContent(s)
    \/ GetDatabaseStats(s)
    \/ UpdateChainParameters(s, {None}, {None}, {Some(3)})
    \/ Cleanup(s, IsoScripts)

SpecIso == Init /\ [][NextIso]_vars

\* ------------------------------------------------------------------- claims
Stats(s, countOk) == get_database_stats(svc[s], coll, countOk).ret
NoDatabase == [status |-> "No database created", chunks |-> 0]
Chunks(s) == coll[<< Val(svc[s].vectorstore).store, Val(svc[s].vectorstore).name >>]

\* C1: query_video_content on an object with no index built (no vector store
\* or no retrieval chain: never built, or cleaned up) returns the fixed
\* not-available string and raises nothing; the question is handed to the
\* retrieval chain only when the vector store and the chain both exist.
C1_QueryNeedsReady ==
  last.op = "query_video_content" =>
    LET r == svc[last.sess] IN
    /\ ~last.raised
    /\ (r.vectorstore = None \/ r.retrieval_qa_chain = None)
         => (last.ret = NoContent /\ ~last.info.handed)
    /\ last.info.handed
         => (r.vectorstore # None /\ r.retrieval_qa_chain # None)

\* The query follows a cleanup of a fully constructed object: the directory
\* is gone and the not-available string came back.
C1_Witness ==
  /\ last.op = "query_video_content"
  /\ last.ret = NoContent
  /\ svc[last.sess].text_splitter # None
  /\ svc[last.sess].temp_dir = None

\* C2: a successful create_vector_database with transcript T2 that follows a
\* successful one with another transcript T1 on the same object (no library
\* call failing in either) leaves the collection, and the count
\* get_database_stats reports, holding exactly the chunks of T2.
C2_RebuildReplaces ==
  ( /\ last.op = "create_vector_database"
    /\ last.ret = TRUE
    /\ ~last.caught
    /\ last.info.prev # None
    /\ last.info.prev # Some(last.info.transcript) )
  => /\ Chunks(last.sess) = split_text(last.info.transcript)
     /\ Stats(last.sess, TRUE).chunks = Len(split_text(last.info.transcript))

\* C3: after cleanup, the first call or a repeated one, nothing was raised
\* and get_database_stats reports no database and zero chunks.
C3_CleanupReentrant ==
  last.op = "cleanup" =>
    /\ ~last.raised
    /\ \A countOk \in BOOLEAN : Stats(last.sess, countOk) = NoDatabase

\* A cleanup that directly follows a cleanup of the same object, on which
\* something failed and was handled.
C3_Witness ==
  /\ last.op = "cleanup"
  /\ last.info.again
  /\ last.caught

\* C4: create_vector_database with the empty transcript on an object that has
\* neither vector store nor chain returns False and leaves it so:
\* get_database_stats still reports no database and zero chunks.
C4_EmptyTranscript ==
  ( /\ last.op = "create_vector_database"
    /\ last.info.transcript = << >>
    /\ last.info.fresh )
  => /\ last.ret = FALSE
     /\ ~last.raised
     /\ svc[last.sess].vectorstore = None
     /\ svc[last.sess].retrieval_qa_chain = None
     /\ \A countOk \in BOOLEAN : Stats(last.sess, countOk) = NoDatabase

\* The empty transcript was given to a fully constructed, unindexed object.
C4_Witness ==
  /\ last.op = "create_vector_database"
  /\ last.info.transcript = << >>
  /\ last.info.fresh
  /\ svc[last.sess].text_splitter # None
  /\ last.ret = FALSE

PublicMethods ==
  { "create_vector_database", "query_video_content",
    "query_with_custom_retriever_params", "get_similar_chunks",
    "get_database_stats", "update_chain_parameters", "cleanup" }

\* C5: no public method lets an exception out, in any reachable state and
\* whatever the library calls do.
C5_NothingEscapes ==
  last.op \in PublicMethods => ~last.raised

\* A library call failed inside a public method of an object whose
\* construction had failed or that was cleaned up (it has no client).
C5_Witness ==
  /\ last.op \in PublicMethods \ {"cleanup"}
  /\ last.caught
  /\ ~last.raised
  /\ svc[last.sess].client = None

\* C6 as claimed: whenever an error occurs inside get_database_stats the
\* status it returns is "Error".
C6_ErrorStatusOnAnyError ==
  (last.op = "get_database_stats" /\ last.caught)
  => (~last.raised /\ last.ret.status = "Error")

\* C6, amended: get_database_stats raises nothing; when the chunk count of an
\* existing vector store cannot be obtained it reports status "Active" with
\* the count "Unknown", and otherwise the collection's count.
C6_StatsNeverRaises ==
  last.op = "get_database_stats" =>
    /\ ~last.raised
    /\ IF svc[last.sess].vectorstore = None
       THEN last.ret = NoDatabase
       ELSE /\ last.ret.status = "Active"
            /\ last.ret.chunks = IF last.info.countOk
                                 THEN Len(Chunks(last.sess)) ELSE Unknown

\* The count of an existing vector store could not be obtained.
C6_Witness ==
  /\ last.op = "get_database_stats"
  /\ last.caught
  /\ svc[last.sess].vectorstore # None
  /\ last.ret.chunks = Unknown

\* C7: update_chain_parameters returns False and changes nothing when there
\* is no vector store; when there is one, the vector store, every collection
\* and the directories are after the call what they were before it.
C7_UpdateKeepsIndex ==
  [][ last'.op = "update_chain_parameters" =>
        LET s == last'.sess IN
        /\ svc[s].vectorstore = None => (last'.ret = FALSE /\ svc'[s] = svc[s])
        /\ svc'[s].vectorstore = svc[s].vectorstore
        /\ coll' = coll
        /\ dirs' = dirs ]_vars

\* The chain was rebuilt with k = 3 over a store that holds chunks.
C7_Witness ==
  /\ last.op = "update_chain_parameters"
  /\ last.ret = TRUE
  /\ last.info.k = Some(3)
  /\ svc[last.sess].vectorstore # None
  /\ Len(Chunks(last.sess)) > 0
  /\ Val(svc[last.sess].retrieval_qa_chain).k = 3

\* C8: every retrieval chain an object holds was built with the RAG prompt
\* and retrieves k = 5 chunks unless a k was given.
C8_ReadyUsesRagPrompt ==
  \A s \in Sessions :
    svc[s].retrieval_qa_chain # None =>
      /\ Val(svc[s].retrieval_qa_chain).prompt = "rag_template"
      /\ Val(svc[s].retrieval_qa_chain).k \in {DefaultK} \cup {Val(k) : k \in Ks \ {None}}

\* C9: a cleanup makes at most max_retries removal attempts, sleeps
\* delay * i before the i-th, stops at the first attempt that removes the
\* directory, raises nothing, and leaves no vector store, chain or client,
\* also when every attempt failed.
C9_RetryBounded ==
  last.op = "cleanup" =>
    LET i == last.info
        r == svc[last.sess]
        firsts == { n \in 1..max_retries : i.rm[n] = "removed" }
    IN /\ ~last.raised
       /\ i.attempts <= max_retries
       /\ i.sleeps = [n \in 1..i.attempts |-> delay * n]
       /\ i.tried =>
            /\ i.attempts >= 1
            /\ \A n \in 1..(i.attempts - 1) : i.rm[n] # "removed"
            /\ i.removed <=> i.rm[i.attempts] = "removed"
            /\ ~i.removed => (i.attempts = max_retries /\ firsts = {})
            /\ i.removed <=> r.temp_dir = None
       /\ ~i.tried => i.attempts = 0
       /\ r.temp_dir # None => Val(r.temp_dir) \in dirs
       /\ r.vectorstore = None
       /\ r.retrieval_qa_chain = None
       /\ r.client = None

\* Every attempt failed, one of them by raising: the budget is used up and
\* the directory is still there.
C9_Witness ==
  /\ last.op = "cleanup"
  /\ last.info.tried
  /\ last.info.attempts = max_retries
  /\ ~last.info.removed
  /\ \E n \in 1..max_retries : last.info.rm[n] = "raise"
  /\ svc[last.sess].temp_dir # None

\* The collection a vector-store handle names.
Key(vs) == << vs.store, vs.name >>

\* C10: two constructed objects have different collection names and, when
\* both have one, different temporary directories; and a call on one object
\* leaves every other object's attributes, and the collections its vector
\* store and its retrieval chain read, as they were.
C10_Isolated ==
  [][ /\ \A s, t \in Sessions :
           (s # t /\ svc'[s].session_id # None /\ svc'[t].session_id # None) =>
             /\ collection_name(Val(svc'[s].session_id))
                  # collection_name(Val(svc'[t].session_id))
             /\ (svc'[s].temp_dir # None /\ svc'[t].temp_dir # None)
                  => svc'[s].temp_dir # svc'[t].temp_dir
      /\ \A t \in Sessions \ {last'.sess} :
           /\ svc'[t] = svc[t]
           /\ svc[t].vectorstore # None =>
                coll'[Key(Val(svc[t].vectorstore))] = coll[Key(Val(svc[t].vectorstore))]
           /\ svc[t].retrieval_qa_chain # None =>
                coll'[Key(Val(svc[t].retrieval_qa_chain).vs)]
                  = coll[Key(Val(svc[t].retrieval_qa_chain).vs)] ]_vars

\* Both objects were cleaned up and indexed again, so both vector stores are
\* collections of the one in-process store, and the last call was a build.
C10_Witness ==
  /\ \A s \in Sessions :
       /\ svc[s].vectorstore # None
       /\ Val(svc[s].vectorstore).store = Ephemeral
       /\ Len(Chunks(s)) > 0
  /\ last.op = "create_vector_database"
  /\ last.ret = TRUE

\* C25: create_vector_database assigns the chain last.  When it returns True
\* the object holds a vector store and a chain that retrieves from it; when
\* it returns False (the transcript gave no chunk, or a step raised) the
\* chain is after the call what it was before it.
C25_ChainInstalledLast ==
  [][ last'.op = "create_vector_database" =>
        LET s == last'.sess IN
        /\ last'.ret = TRUE =>
             /\ svc'[s].vectorstore # None
             /\ svc'[s].retrieval_qa_chain # None
             /\ Val(svc'[s].retrieval_qa_chain).vs = Val(svc'[s].vectorstore)
        /\ last'.ret = FALSE =>
             svc'[s].retrieval_qa_chain = svc[s].retrieval_qa_chain ]_vars

\* A build of a transcript that has chunks failed on an object that held a
\* chain: the object still holds it.
C25_Witness ==
  /\ last.op = "create_vector_database"
  /\ last.ret = FALSE
  /\ split_text(last.info.transcript) # << >>
  /\ ~last.info.fresh
  /\ svc[last.sess].retrieval_qa_chain # None

\* C26: between calls, an object that holds a chain holds a vector store, so
\* get_database_stats answers has_retrieval_chain = True only together with
\* status "Active".
C26_ChainImpliesStore ==
  /\ \A s \in Sessions :
       svc[s].retrieval_qa_chain # None => svc[s].vectorstore # None
  /\ (last.op = "get_database_stats" /\ "has_retrieval_chain" \in DOMAIN last.ret)
       => (last.ret.has_retrieval_chain => last.ret.status = "Active")

\* get_database_stats answered has_retrieval_chain = True after a cleanup
\* and a new build.
C26_Witness ==
  /\ last.op = "get_database_stats"
  /\ "has_retrieval_chain" \in DOMAIN last.ret
  /\ last.ret.has_retrieval_chain
  /\ svc[last.sess].client = None
  /\ svc[last.sess].retrieval_qa_chain # None

\* C29: update_chain_parameters on an object with a vector store takes
\* nothing from the chain it replaces: the chain it builds retrieves k = 5
\* chunks unless k is given and is of type "stuff" unless chain_type is
\* given; it leaves the LLM alone when temperature is omitted, and a given
\* temperature is the LLM's after the call, also when the chain could not be
\* built and the call returned False.
C29_UpdateForgets ==
  [][ (last'.op = "update_chain_parameters"
       /\ svc[last'.sess].vectorstore # None) =>
        LET s == last'.sess
            a == last'.info
        IN
        /\ last'.ret = TRUE =>
             /\ Val(svc'[s].retrieval_qa_chain).k
                  = IF a.k = None THEN DefaultK ELSE Val(a.k)
             /\ Val(svc'[s].retrieval_qa_chain).chain_type
                  = IF a.chain_type = None THEN "stuff" ELSE Val(a.chain_type)
        /\ a.temperature = None => svc'[s].llm = svc[s].llm
        /\ a.temperature # None =>
             Val(svc'[s].llm).temperature = Val(a.temperature)
        /\ last'.ret = FALSE =>
             svc'[s].retrieval_qa_chain = svc[s].retrieval_qa_chain ]_vars

\* An earlier call set the temperature to 2; the last call, given nothing,
\* built a chain with k = 5 and "stuff" and the temperature is still 2.
C29_Witness ==
  /\ last.op = "update_chain_parameters"
  /\ last.ret = TRUE
  /\ last.info = [temperature |-> None, chain_type |-> None, k |-> None]
  /\ Val(svc[last.sess].retrieval_qa_chain).k = DefaultK
  /\ Val(svc[last.sess].retrieval_qa_chain).chain_type = "stuff"
  /\ Val(svc[last.sess].llm).temperature = 2

\* ========================================================================
\* The quiz generator and scorer (services/quiz_generator.py).
\*
\* A text is a sequence of symbols.  A symbol is one character, except the
\* two words the parser looks for as wholes: Marker, a match of the regular
\* expression 'QUESTION \d+:', and "CORRECT".  A response of the LLM is the
\* sequence of its lines (the text between two newlines).
\* ========================================================================

\* ------------------------------------------------------------------ bounds
MaxBlocks == 6       \* question blocks in a response made of whole blocks
MaxLines == 5        \* lines after the marker line in a free response

\* -------------------------------------------------------- program constants
block_limit == 5               \* if i >= 5: break
max_transcript_length == 8000  \* transcript[:8000]

Marker == "QUESTION 1:"
Space == " "

\* ---------------------------------------------------------------- strings
\* str.split(sep): the pieces of a text between the occurrences of sep.
RECURSIVE split_at(_, _)
split_at(text, sep) ==
  IF \E i \in 1..Len(text) : text[i] = sep
  THEN LET i == CHOOSE i \in 1..Len(text) :
                  text[i] = sep /\ \A j \in 1..(i - 1) : text[j] # sep
       IN << SubSeq(text, 1, i - 1) >>
          \o split_at(SubSeq(text, i + 1, Len(text)), sep)
  ELSE << text >>

RECURSIVE lstrip(_)
lstrip(text) ==
  IF text # << >> /\ Head(text) = Space THEN lstrip(Tail(text)) ELSE text

RECURSIVE rstrip(_)
rstrip(text) ==
  IF text # << >> /\ text[Len(text)] = Space
  THEN rstrip(SubSeq(text, 1, Len(text) - 1))
  ELSE text

\* str.strip()
strip(text) == rstrip(lstrip(text))

\* str.startswith(prefix)
startswith(text, prefix) ==
  Len(text) >= Len(prefix) /\ SubSeq(text, 1, Len(prefix)) = prefix

\* str.upper(), symbol by symbol
upper(text) ==
  [ i \in 1..Len(text) |->
      CASE text[i] = "a" -> "A" [] text[i] = "b" -> "B"
        [] text[i] = "c" -> "C" [] text[i] = "d" -> "D"
        [] OTHER -> text[i] ]

\* ------------------------------------------------------------- the parser
\* re.split(r'QUESTION \d+:', response): the pieces of the response between
\* the markers, each piece a sequence of lines.  A marker inside a line cuts
\* the line; what follows it on the line opens the next piece.
RECURSIVE re_split(_)
re_split(lines) ==
  IF lines = << >> THEN << << >> >>
  ELSE LET parts == split_at(Head(lines), Marker)
           rest == re_split(Tail(lines))
           n == Len(parts)
       IN [ k \in 1..(n - 1) |-> << parts[k] >> ]
          \o << << parts[n] >> \o Head(rest) >>
          \o Tail(rest)

\* [line.strip() for line in block.strip().split('\n') if line.strip()]
\* (block.strip() removes only what the strip and the filter remove too)
block_lines(block) ==
  SelectSeq([ i \in 1..Len(block) |-> strip(block[i]) ],
            LAMBDA line : line # << >>)

OptionPrefixes ==
  { << "A", ")" >>, << "B", ")" >>, << "C", ")" >>, << "D", ")" >> }

options_of_unstripped(lines) ==
  SelectSeq(SubSeq(lines, 2, Min(5, Len(lines))),
            LAMBDA line : \E prefix \in OptionPrefixes :
                            startswith(line, prefix))

\* The options taken only when the four labels are A) B) C) D) in this order.
options_of_in_order(lines) ==
  LET window == SubSeq(lines, 2, Min(5, Len(lines)))
      marked == SelectSeq(window,
                  LAMBDA line : \E prefix \in OptionPrefixes :
                                  startswith(line, prefix))
  IN IF \E i \in 1..Len(marked) : Head(marked[i]) # << "A", "B", "C", "D" >>[i]
     THEN << >>
     ELSE [ i \in 1..Len(marked) |-> strip(SubSeq(marked[i], 3, Len(marked[i]))) ]

\* for line in lines[1:5]: if line.startswith(...): options.append(line[2:].strip())
options_of(lines) ==
  LET window == SubSeq(lines, 2, Min(5, Len(lines)))
      marked == SelectSeq(window,
                  LAMBDA line : \E prefix \in OptionPrefixes :
                                  startswith(line, prefix))
  IN [ i \in 1..Len(marked) |-> strip(SubSeq(marked[i], 3, Len(marked[i]))) ]

Letters == << "A", "B", "C", "D" >>

\* ord(correct_letter) - ord('A')
ord_from_A(letter) == (CHOOSE i \in 1..Len(Letters) : Letters[i] = letter) - 1

\* for line in lines: if line.startswith('CORRECT:'): ...  (the last line
\* naming one of the four letters decides)
RECURSIVE correct_answer_of(_, _)
correct_answer_of(lines, correct_answer) ==
  IF lines = << >> THEN correct_answer
  ELSE LET line == Head(lines)
           correct_letter == upper(strip(split_at(line, ":")[2]))
       IN correct_answer_of(Tail(lines),
            IF /\ startswith(line, << "CORRECT", ":" >>)
               /\ \E i \in 1..Len(Letters) : correct_letter = << Letters[i] >>
            THEN Some(ord_from_A(correct_letter[1]))
            ELSE correct_answer)

\* QuizQuestion(question, options, correct_answer, explanation); the field
\* correct_answer holds None or an index.
QuizQuestion(question, options, correct_answer, explanation) ==
  [ question |-> question, options |-> options,
    correct_answer |-> correct_answer, explanation |-> explanation ]

accepted_without_answer(options, correct_answer) == Len(options) = 4

\* if len(options) == 4 and correct_answer is not None
accepted(options, correct_answer) ==
  Len(options) = 4 /\ correct_answer # None

\* The body of the loop for one block: the question it appends, or None.
parse_block(block) ==
  LET lines == block_lines(block) IN
  IF Len(lines) < 6 THEN None
  ELSE LET options == options_of(lines)
           correct_answer == correct_answer_of(lines, None)
       IN IF accepted(options, correct_answer)
          THEN Some(QuizQuestion(lines[1], options, correct_answer, << >>))
          ELSE None

first_blocks_unbounded(question_blocks) == question_blocks

\* for i, block in enumerate(question_blocks): if i >= 5: break
first_blocks(question_blocks) ==
  SubSeq(question_blocks, 1, Min(block_limit, Len(question_blocks)))

RECURSIVE parse_blocks(_)
parse_blocks(blocks) ==
  IF blocks = << >> THEN << >>
  ELSE parse_block(Head(blocks)) \o parse_blocks(Tail(blocks))

\* _create_fallback_questions()
create_fallback_questions ==
  << QuizQuestion(<< "What was the main topic of this video?" >>,
                  << << "Educational content" >>, << "Entertainment" >>,
                     << "News update" >>, << "Product review" >> >>,
                  Some(0), << "Based on the video analysis" >>),
     QuizQuestion(<< "What type of content was primarily discussed?" >>,
                  << << "Technical information" >>, << "Personal stories" >>,
                     << "Historical facts" >>, << "General knowledge" >> >>,
                  Some(0), << "Inferred from video content" >>),
     QuizQuestion(<< "What was the overall tone of the video?" >>,
                  << << "Informative" >>, << "Casual" >>, << "Formal" >>,
                     << "Entertaining" >> >>,
                  Some(0), << "Based on content analysis" >>) >>

or_fallback_never(questions) == questions

\* if not questions: questions = self._create_fallback_questions()
or_fallback(questions) ==
  IF questions = << >> THEN create_fallback_questions ELSE questions

\* The try block of _parse_quiz_response.  The response is Some(lines), or
\* None for a value that is not a string, on which re.split raises.
parse_quiz_response_try(resp) ==
  IF resp = None THEN Raises
  ELSE LET question_blocks == Tail(re_split(Val(resp)))
       IN Returns(or_fallback(parse_blocks(first_blocks(question_blocks))))

parse_quiz_response(resp) ==
  Except(parse_quiz_response_try(resp), create_fallback_questions)

\* ---------------------------------------------------------- generate_quiz
\* Quiz(title, questions, total_questions); __post_init__ sets
\* total_questions to len(questions).
Quiz(title, questions, total_questions) ==
  [ title |-> title, questions |-> questions,
    total_questions |-> Len(questions) ]

\* f"Quiz: {title}" if title else "Video Quiz"
quiz_title(title) ==
  IF title # << >> THEN << "Quiz: " >> \o title ELSE << "Video Quiz" >>

\* _create_fallback_quiz(title)
create_fallback_quiz(title) ==
  Quiz(quiz_title(title), create_fallback_questions, 3)

\* The try block of generate_quiz: the chain is run on the first 8000
\* characters of the transcript; the call raises (llmOk false) or gives resp.
generate_quiz_try(transcript, title, num_questions, llmOk, resp) ==
  LET sent == SubSeq(transcript, 1, Min(max_transcript_length, Len(transcript)))
  IN IF ~llmOk THEN Raises
     ELSE LET quiz_data == parse_quiz_response(resp)
          IN [ Returns(Quiz(quiz_title(title), quiz_data.ret,
                            Len(quiz_data.ret)))
               EXCEPT !.caught = quiz_data.caught ]

generate_quiz(transcript, title, num_questions, llmOk, resp) ==
  Except(generate_quiz_try(transcript, title, num_questions, llmOk, resp),
         create_fallback_quiz(title))

\* ------------------------------------------------------------ the inputs
Line(q) == << Space >> \o q
Option(i, text) == << Letters[i], ")", Space >> \o text
Correct(letter) == << "CORRECT", ":", Space, letter >>

\* A block as the prompt asks for it, closed by an empty line.
Asked(q, a, b, c, d, letter) ==
  << Line(q), Option(1, a), Option(2, b), Option(3, c), Option(4, d),
     Correct(letter), << >> >>

\* The blocks a response is made of: the example of the template with two
\* different answers, one whose last line names no answer, and a short one.
BlockKinds ==
  { Asked(<< "Q", "?" >>, << "a" >>, << "b" >>, << "c" >>, << "d" >>, "C"),
    Asked(<< "Q" >>, << "d" >>, << "c" >>, << "b" >>, << "a" >>, "A"),
    << Line(<< "Q", "?" >>), Option(1, << "a" >>), Option(2, << "b" >>),
       Option(3, << "c" >>), Option(4, << "d" >>),
       << "A", "n", "s", "w", "e", "r", ":", Space, "C" >> >>,
    << Line(<< "Q", "?" >>), Option(1, << "a" >>) >> }

\* The lines of the block, the marker put before the first.
Marked(block) == << << Marker >> \o Head(block) >> \o Tail(block)

RECURSIVE Flatten(_)
Flatten(blocks) ==
  IF blocks = << >> THEN << >>
  ELSE Marked(Head(blocks)) \o Flatten(Tail(blocks))

\* Responses made of whole blocks.
BlockResponses ==
  { Flatten(blocks) :
      blocks \in UNION { [1..n -> BlockKinds] : n \in 0..MaxBlocks } }

\* The lines a free response is made of after its marker line.
FreeLines ==
  { << Space, "A", ")", Space, "a", Space >>,
    << "B", ")", "b" >>,
    << "CORRECT", ":", Space, "c" >>,
    << "CORRECT", ":", "B", ")", ":", "A" >>,
    << Space >> }

\* A line of greeting, the marker with the question on its line, and then
\* any lines.
FreeResponses ==
  { << << "H", "i", ":" >>, << Marker, Space, "Q", "?" >> >> \o lines :
      lines \in UNION { [1..n -> FreeLines] : n \in 0..MaxLines } }

\* "QUESTION 1: Q?\nA) a\nB) b\nC) c\nD) d\nCORRECT: C"
ExampleResponse ==
  << << Marker, Space, "Q", "?" >>,
     << "A", ")", Space, "a" >>, << "B", ")", Space, "b" >>,
     << "C", ")", Space, "c" >>, << "D", ")", Space, "d" >>,
     << "CORRECT", ":", Space, "C" >> >>

Responses ==
  {None}
  \cup { Some(r) : r \in BlockResponses \cup FreeResponses \cup {ExampleResponse} }

\* The arguments of a call: no title and fewer questions than the parser
\* keeps, the call of main.py, and more questions than the parser keeps.
QuizCalls ==
  { [ transcript |-> << >>, title |-> << >>, num_questions |-> 3 ],
    [ transcript |-> << "a" >>, title |-> << "T" >>, num_questions |-> 5 ],
    [ transcript |-> << "a", "b" >>, title |-> << "T" >>,
      num_questions |-> 10 ] }

\* ------------------------------------------------------------ the action
InitQuiz ==
  /\ svc = [s \in Sessions |-> Unbuilt]
  /\ coll = [k \in Stores \X Ids |-> << >>]
  /\ dirs = {}
  /\ uuids = 0
  /\ mkdtemps = 0
  /\ last = Call("none", 0, FALSE, FALSE, FALSE, << >>)
  /\ response \in Responses
  /\ quiz = None
  /\ user_answers = None
  /\ poll = None
  /\ post = None /\ shuffled = None /\ ui = None /\ race = None

\* quiz = generate_quiz(transcript, title, num_questions)
GenerateQuiz ==
  /\ quiz = None
  /\ \E call \in QuizCalls, llmOk \in BOOLEAN :
       LET o == generate_quiz(call.transcript, call.title,
                              call.num_questions, llmOk, response) IN
       /\ quiz' = Some(o.ret)
       /\ last' = Call("generate_quiz", 0, TRUE, o.exc, o.caught,
                       [ title |-> call.title,
                         num_questions |-> call.num_questions,
                         llmOk |-> llmOk ])
       /\ UNCHANGED << svc, coll, dirs, uuids, mkdtemps, response,
                       user_answers, poll,
                    post, shuffled, ui, race >>

NextQuiz == GenerateQuiz

SpecQuiz == InitQuiz /\ [][NextQuiz]_vars

\* ---------------------------------------------------- claims on the quiz
\* The question blocks of the response in hand.
QuestionBlocks == Tail(re_split(Val(response)))
Parsed == last.op = "generate_quiz" /\ last.info.llmOk /\ response # None
Questions == Val(quiz).questions

\* C11: whatever the transcript, the response of the LLM (also none, the LLM
\* failing) and the number of questions asked for (also above 5),
\* generate_quiz returns a Quiz of 1 to 5 questions whose total_questions is
\* the length of its question list, every question with exactly 4 options
\* and a correct_answer among 0, 1, 2, 3.
C11_QuizShape ==
  last.op = "generate_quiz" =>
    /\ ~last.raised
    /\ Val(quiz).total_questions >= 1
    /\ Val(quiz).total_questions <= 5
    /\ Val(quiz).total_questions = Len(Questions)
    /\ \A i \in 1..Len(Questions) :
         /\ Len(Questions[i].options) = 4
         /\ Questions[i].correct_answer \in { Some(n) : n \in 0..3 }

\* More than five questions were asked for, the response holds more than
\* five blocks that each parse into a question, and five came back.
C11_Witness ==
  /\ Parsed
  /\ last.info.num_questions > 5
  /\ Len(QuestionBlocks) > 5
  /\ \A i \in 1..Len(QuestionBlocks) : parse_block(QuestionBlocks[i]) # None
  /\ Val(quiz).total_questions = 5

\* A block as the prompt asks for it: once its blank lines are put aside,
\* the question text, the four options labelled A) B) C) D) in this order,
\* and 'CORRECT: <letter>'.
NoEdgeSpace(text) ==
  text # << >> /\ Head(text) # Space /\ text[Len(text)] # Space
NonBlank(block) ==
  SelectSeq(block, LAMBDA line : \E i \in 1..Len(line) : line[i] # Space)
WellFormed(block) ==
  LET lines == NonBlank(block) IN
  /\ Len(lines) = 6
  /\ Head(lines[1]) = Space /\ NoEdgeSpace(Tail(lines[1]))
  /\ \A i \in 1..4 :
       /\ Len(lines[i + 1]) > 3
       /\ SubSeq(lines[i + 1], 1, 3) = << Letters[i], ")", Space >>
       /\ NoEdgeSpace(SubSeq(lines[i + 1], 4, Len(lines[i + 1])))
  /\ Len(lines[6]) = 4
  /\ SubSeq(lines[6], 1, 3) = << "CORRECT", ":", Space >>
  /\ lines[6][4] \in { "A", "B", "C", "D" }

\* The question such a block stands for.
Expected(block) ==
  LET lines == NonBlank(block) IN
  [ question |-> Tail(lines[1]),
    options |-> [ i \in 1..4 |-> SubSeq(lines[i + 1], 4, Len(lines[i + 1])) ],
    correct_answer |-> Some(CASE lines[6][4] = "A" -> 0 [] lines[6][4] = "B" -> 1
                              [] lines[6][4] = "C" -> 2 [] lines[6][4] = "D" -> 3),
    explanation |-> << >> ]

\* C12: each well-formed block among the blocks the parser goes through
\* yields the question with its text, its four option texts in order
\* without the two-character label, and the zero-based index of the letter
\* as correct_answer; a response of well-formed blocks alone yields exactly
\* one question per block, in order; and the block of the example yields
\* question 'Q?', options a, b, c, d and correct_answer 2.
C12_WellFormedParsed ==
  Parsed =>
    LET blocks == first_blocks(QuestionBlocks) IN
    /\ \A i \in 1..Len(blocks) :
         WellFormed(blocks[i])
           => \E j \in 1..Len(Questions) : Questions[j] = Expected(blocks[i])
    /\ (blocks # << >> /\ \A i \in 1..Len(blocks) : WellFormed(blocks[i]))
         => Questions = [ i \in 1..Len(blocks) |-> Expected(blocks[i]) ]
    /\ response = Some(ExampleResponse)
         => Questions =
              << [ question |-> << "Q", "?" >>,
                   options |-> << << "a" >>, << "b" >>, << "c" >>, << "d" >> >>,
                   correct_answer |-> Some(2),
                   explanation |-> << >> ] >>

\* The example of the specification was parsed.
C12_Witness ==
  /\ Parsed
  /\ response = Some(ExampleResponse)
  /\ Val(quiz).total_questions = 1

\* Some line of the block, leading blanks aside, starts with 'CORRECT:'.
HasCorrectLine(block) ==
  \E i \in 1..Len(block) : startswith(lstrip(block[i]), << "CORRECT", ":" >>)

\* C13: a block without a 'CORRECT:' line is dropped: the questions returned
\* are those built from the other blocks alone (or the fallback questions,
\* when these give none), whatever the other blocks hold.
C13_NoCorrectDropped ==
  Parsed =>
    \/ Questions = create_fallback_questions
    \/ Questions = parse_blocks(SelectSeq(first_blocks(QuestionBlocks),
                                          HasCorrectLine))

\* A block with a question and four labelled options but no 'CORRECT:'
\* line stands between two blocks that parse; two questions came back.
C13_Witness ==
  /\ Parsed
  /\ Len(QuestionBlocks) = 3
  /\ ~HasCorrectLine(QuestionBlocks[2])
  /\ Len(block_lines(QuestionBlocks[2])) >= 6
  /\ Len(options_of(block_lines(QuestionBlocks[2]))) = 4
  /\ Len(Questions) = 2
  /\ Questions # create_fallback_questions

\* C14 as claimed: generate_quiz returns the fallback quiz exactly when no
\* block of the response parses into a valid question or an exception
\* occurred (the LLM call failed, the response could not be split); the
\* caller gets neither an empty quiz nor an exception.
C14_FallbackExactly ==
  last.op = "generate_quiz" =>
    LET failed == ~last.info.llmOk \/ response = None
        none_valid == \A i \in 1..Len(QuestionBlocks) :
                        parse_block(QuestionBlocks[i]) = None
    IN /\ ~last.raised
       /\ Questions # << >>
       /\ (Val(quiz) = create_fallback_quiz(last.info.title))
            <=> (failed \/ none_valid)

\* The index the line names: the line starts with 'CORRECT:' and what stands
\* between its first colon and its second, blanks and case aside, is one of
\* A, B, C, D.  None when it names none.
Names(line) ==
  IF startswith(line, << "CORRECT", ":" >>)
  THEN LET word == upper(strip(split_at(line, ":")[2])) IN
       IF \E n \in 1..4 : word = << Letters[n] >>
       THEN Some((CHOOSE n \in 1..4 : word = << Letters[n] >>) - 1)
       ELSE None
  ELSE None

\* A block the parser accepts, as C30 describes it.
Valid(block) ==
  LET lines == block_lines(block) IN
  /\ Len(lines) >= 6
  /\ \A i \in 2..5 : \E prefix \in OptionPrefixes : startswith(lines[i], prefix)
  /\ \E i \in 1..Len(lines) : Names(lines[i]) # None

\* The question C30 describes for such a block.
Described(block) ==
  LET lines == block_lines(block)
      deciding == CHOOSE i \in 1..Len(lines) :
                    /\ Names(lines[i]) # None
                    /\ \A j \in (i + 1)..Len(lines) : Names(lines[j]) = None
  IN [ question |-> lines[1],
       options |-> [ i \in 1..4 |->
                       strip(SubSeq(lines[i + 1], 3, Len(lines[i + 1]))) ],
       correct_answer |-> Names(lines[deciding]),
       explanation |-> << >> ]

MaxQuestions == 2    \* questions of a quiz whose answers are all enumerated
BigQuiz == 402       \* questions of a long quiz
MaxCalls == 2        \* successive calls on one pair

\* -------------------------------------------------------- program constants
passing_grade == 60  \* "passed": percentage >= 60

Digits == << "0", "1", "2", "3", "4", "5", "6", "7", "8", "9" >>

\* str(i) for i >= 0: the decimal digits of i
RECURSIVE str(_)
str(i) ==
  IF i < 10 THEN << Digits[i + 1] >>
  ELSE Append(str(i \div 10), Digits[(i % 10) + 1])

get_or_first(d, key) == IF key \in DOMAIN d THEN Some(d[key]) ELSE Some(0)

\* dict.get(key): the value, None for a key the dict does not hold
get(d, key) == IF key \in DOMAIN d THEN Some(d[key]) ELSE None

\* round(num / den * 100, 1) in tenths: the nearest tenth of the
\* percentage, a tie going to the even tenth.  (For the quiz sizes drawn
\* below the double arithmetic of line 174 gives the same tenth.)
round(num, den) ==
  LET q == (1000 * num) \div den
      r == (1000 * num) % den
  IN IF 2 * r > den \/ (2 * r = den /\ q % 2 = 1) THEN q + 1 ELSE q

unanswered_never(answers, questions) == FALSE

\* if not user_answers or not quiz.questions
unanswered(answers, questions) == answers = << >> \/ questions = << >>

empty_result_zero_total(questions) ==
  [ score |-> 0, total |-> 0, percentage |-> 0, passed |-> FALSE,
    results |-> << >> ]

\* the result of lines 146-152
empty_result(questions) ==
  [ score |-> 0, total |-> Len(questions), percentage |-> 0,
    passed |-> FALSE, results |-> << >> ]

\* results: one entry per question, in order (lines 157-171)
results_of(answers, questions) ==
  [ n \in 1..Len(questions) |->
      LET i == n - 1
          question == questions[n]
          user_answer == get(answers, str(i))
      IN [ question_index |-> i,
           question |-> question.question,
           user_answer |-> user_answer,
           correct_answer |-> question.correct_answer,
           is_correct |-> user_answer = question.correct_answer,
           options |-> question.options ] ]

\* what calculate_score returns
score_result(answers, questions) ==
  IF unanswered(answers, questions) THEN empty_result(questions)
  ELSE LET results == results_of(answers, questions)
           correct_count ==
             Cardinality({ n \in 1..Len(results) : results[n].is_correct })
           total_questions == Len(questions)
       IN [ score |-> correct_count,
            total |-> total_questions,
            percentage |-> IF total_questions > 0
                           THEN round(correct_count, total_questions)
                           ELSE 0,
            passed |-> IF total_questions > 0
                       THEN 100 * correct_count >= passing_grade * total_questions
                       ELSE 0 >= passing_grade,
            results |-> results ]

calculate_score_consuming(answers, q) ==
  [ ret |-> score_result(answers, q.questions),
    user_answers |-> << >>, quiz |-> q ]

\* calculate_score: the result, and the two arguments as the call leaves
\* them (it assigns to neither).
calculate_score(answers, q) ==
  [ ret |-> score_result(answers, q.questions),
    user_answers |-> answers, quiz |-> q ]

\* ------------------------------------------------------------ the inputs
Asks(correct_answer) ==
  QuizQuestion(<< "Q" >>, << << "a" >>, << "b" >>, << "c" >>, << "d" >> >>,
               Some(correct_answer), << >>)

\* Quizzes of up to MaxQuestions questions with every dict over the keys of
\* their indices and a key that is no index; and quizzes of block_limit and
\* of BigQuiz questions, answered rightly for the first s questions and
\* wrongly for the others, s near the passing grade.
ScoreInputs ==
  { [ questions |-> qs, answers |-> a ] :
      qs \in UNION { [1..n -> { Asks(0), Asks(3) }] : n \in 0..MaxQuestions },
      a \in UNION { [keys -> {0, 3}] :
                      keys \in SUBSET ({ str(i) : i \in 0..(MaxQuestions - 1) }
                                       \cup { << "x" >> }) } }
  \cup
  { [ questions |-> [ n \in 1..total |-> Asks(0) ],
      answers |-> [ key \in { str(i) : i \in 0..(total - 1) } |->
                      IF \E i \in 0..(s - 1) : key = str(i) THEN 0 ELSE 1 ] ] :
      total \in { block_limit, BigQuiz },
      s \in { n \in 0..BigQuiz : n <= 5 \/ (5 * n - 3 * BigQuiz) \in -10..10 } }

\* ------------------------------------------------------------ the action
InitScore ==
  /\ svc = [s \in Sessions |-> Unbuilt]
  /\ coll = [k \in Stores \X Ids |-> << >>]
  /\ dirs = {}
  /\ uuids = 0
  /\ mkdtemps = 0
  /\ last = Call("none", 0, FALSE, FALSE, FALSE, << >>)
  /\ response = None
  /\ \E input \in ScoreInputs :
       /\ quiz = Some(Quiz(<< "Video Quiz" >>, input.questions,
                           Len(input.questions)))
       /\ user_answers = input.answers
  /\ poll = None
  /\ post = None /\ shuffled = None /\ ui = None /\ race = None

\* score_result = calculate_score(quiz_answers, quiz)
CalculateScore ==
  LET calls == IF last.op = "calculate_score" THEN last.info.calls + 1 ELSE 1
      o == calculate_score(user_answers, Val(quiz))
  IN /\ calls <= MaxCalls
     /\ user_answers' = o.user_answers
     /\ quiz' = Some(o.quiz)
     /\ last' = Call("calculate_score", 0, o.ret, FALSE, FALSE,
                     [ calls |-> calls ])
     /\ UNCHANGED << svc, coll, dirs, uuids, mkdtemps, response, poll,
                    post, shuffled, ui, race >>

NextScore == CalculateScore

SpecScore == InitScore /\ [][NextScore]_vars

\* -------------------------------------------------- claims on the scorer
Scored == last.op = "calculate_score"
QuizQuestions == Val(quiz).questions

\* The indices of the questions answered rightly.
Matches(answers) ==
  { i \in 0..(Len(QuizQuestions) - 1) :
      /\ str(i) \in DOMAIN answers
      /\ Some(answers[str(i)]) = QuizQuestions[i + 1].correct_answer }

\* C15: with answers and questions both non-empty, the score is the number
\* of indices i below the total whose answer under key str(i) is the
\* correct_answer of question i, so it lies between 0 and the total; an index
\* without an answer counts as wrong and raises nothing; the keys that are no
\* index change nothing.
C15_ScoreCountsMatches ==
  (Scored /\ user_answers # << >> /\ QuizQuestions # << >>) =>
    /\ ~last.raised
    /\ last.ret.total = Len(QuizQuestions)
    /\ last.ret.score = Cardinality(Matches(user_answers))
    /\ last.ret.score >= 0
    /\ last.ret.score <= last.ret.total
    /\ \A i \in 0..(Len(QuizQuestions) - 1) :
         str(i) \notin DOMAIN user_answers
           => ~last.ret.results[i + 1].is_correct
    /\ LET index_keys == { key \in DOMAIN user_answers :
                             \E i \in 0..(Len(QuizQuestions) - 1) : key = str(i) }
           indexed == [ key \in index_keys |-> user_answers[key] ]
       IN last.ret.score = score_result(indexed, QuizQuestions).score

\* Two questions whose answer is option 0: the first answered rightly, the
\* second not answered, and a key that is no index answered 0.
C15_Witness ==
  /\ Scored
  /\ Len(QuizQuestions) = 2
  /\ \A n \in 1..2 : QuizQuestions[n].correct_answer = Some(0)
  /\ DOMAIN user_answers = { str(0), << "x" >> }
  /\ user_answers[str(0)] = 0
  /\ user_answers[<< "x" >>] = 0
  /\ last.ret.score = 1

\* C16 as claimed: in every result the percentage is score / total * 100
\* rounded to one decimal (0 when the total is 0), and passed is true
\* exactly when this reported percentage is at least 60.
C16_PassedIffReported ==
  Scored =>
    /\ last.ret.percentage = IF last.ret.total = 0 THEN 0
                             ELSE round(last.ret.score, last.ret.total)
    /\ last.ret.passed <=> (last.ret.percentage >= 10 * passing_grade)

\* C17: with user_answers = {} and a quiz that has questions, the result is
\* score 0, total len(quiz.questions), percentage 0, passed False.
C17_EmptyAnswers ==
  (Scored /\ user_answers = << >> /\ QuizQuestions # << >>) =>
    /\ ~last.raised
    /\ last.ret.score = 0
    /\ last.ret.total = Len(QuizQuestions)
    /\ last.ret.percentage = 0
    /\ last.ret.passed = FALSE

\* No answer was given to a quiz of two questions.
C17_Witness ==
  /\ Scored
  /\ user_answers = << >>
  /\ Len(QuizQuestions) = 2
  /\ last.ret.total = 2

\* C18 as claimed: whenever the quiz has no question or user_answers is
\* empty, the result is score 0, total 0, passed False, and nothing is
\* raised.
C18_ZeroTotal ==
  (Scored /\ (QuizQuestions = << >> \/ user_answers = << >>)) =>
    /\ ~last.raised
    /\ last.ret.score = 0
    /\ last.ret.total = 0
    /\ last.ret.passed = FALSE

\* C18 amended: whenever the quiz has no question or user_answers is empty,
\* the result is score 0, percentage 0, passed False, no per-question
\* entries, and total len(quiz.questions): 0 for a quiz without questions,
\* the number of questions otherwise; nothing is raised, nothing divided.
C18_ZeroScoreResult ==
  (Scored /\ (QuizQuestions = << >> \/ user_answers = << >>)) =>
    /\ ~last.raised
    /\ last.ret.score = 0
    /\ last.ret.total = Len(QuizQuestions)
    /\ last.ret.percentage = 0
    /\ last.ret.passed = FALSE
    /\ last.ret.results = << >>

\* Answers were submitted for a quiz without questions.
C18_Witness ==
  /\ Scored
  /\ QuizQuestions = << >>
  /\ user_answers # << >>
  /\ last.ret.total = 0

MaxWait == 4         \* max_wait_time, in seconds
MaxInterval == 2     \* check_interval, in seconds
MaxTook == 1         \* seconds the calls of one attempt can take

sleep_returns_at_once(now, seconds) == now

\* time.sleep(seconds): the clock when it returns
sleep(now, seconds) == now + seconds

\* The frame at the first test of the while statement (lines 21-23).
frame(max_wait_time, check_interval, callbacks) ==
  [ pc |-> "loop", outcome |-> "none",
    max_wait_time |-> max_wait_time, check_interval |-> check_interval,
    callbacks |-> callbacks,
    start_time |-> 0, now |-> 0, attempts |-> 0,
    max_attempts |-> max_wait_time \div check_interval,
    slept |-> 0 ]

\* What can happen in one attempt: the time its calls take, whether a
\* callback raises (and with which kind of message), what get_transcript_text
\* and get_transcript do, and whether the callback of the handler returns.
PollEnvs(p) ==
  { env \in [ took : 0..MaxTook,
              callback : { "ok", "processing", "other" },
              text : { "transcript", "short", "raise" },
              json : { "transcript", "empty", "raise" },
              handlerOk : BOOLEAN ] :
      /\ p.callbacks = "none" => (env.callback = "ok" /\ env.handlerOk)
      /\ env.callback = "ok" => env.handlerOk
      /\ env.callback # "ok" => (env.text = "short" /\ env.json = "empty")
      /\ env.text = "transcript" => env.json = "empty" }

\* The body of the outer try (lines 28-113): how the attempt ends, or the
\* kind of the exception that reaches the outer handler.
try_attempt(p, attempts, env) ==
  IF p.callbacks = "both" /\ p.max_attempts = 0 THEN "other"
  ELSE IF env.callback # "ok" THEN env.callback
  ELSE IF env.text = "transcript" \/ env.json = "transcript" THEN "return"
  ELSE IF attempts < p.max_attempts THEN "continue"
  ELSE "break"

\* except Exception as e (lines 115-132)
handler(attempts, message, handlerOk) ==
  IF ~handlerOk THEN "raise"
  ELSE IF message = "processing" THEN "continue"
  ELSE IF attempts < 3 THEN "continue"
  ELSE "raise"

\* One pass of the loop body (lines 26-132), and line 134 after a break.
attempt(p, env) ==
  LET attempts == p.attempts + 1
      tried == try_attempt(p, attempts, env)
      ended == IF tried \in { "processing", "other" }
               THEN handler(attempts, tried, env.handlerOk)
               ELSE tried
      after == p.now + env.took
      q == [p EXCEPT !.attempts = attempts, !.now = after]
  IN CASE ended = "return" ->
            [q EXCEPT !.pc = "returned", !.outcome = "transcript"]
       [] ended = "continue" ->
            [q EXCEPT !.now = sleep(after, p.check_interval),
                      !.slept = sleep(after, p.check_interval) - after]
       [] ended = "break" ->
            [q EXCEPT !.pc = "raised", !.outcome = "timeout"]
       [] ended = "raise" ->
            [q EXCEPT !.pc = "raised", !.outcome = "error"]

\* while time.time() - start_time < max_wait_time
within_budget(p) == p.now - p.start_time < p.max_wait_time

InitPoll ==
  /\ svc = [s \in Sessions |-> Unbuilt]
  /\ coll = [k \in Stores \X Ids |-> << >>]
  /\ dirs = {}
  /\ uuids = 0
  /\ mkdtemps = 0
  /\ last = Call("none", 0, FALSE, FALSE, FALSE, << >>)
  /\ response = None
  /\ quiz = None
  /\ user_answers = None
  /\ post = None /\ shuffled = None /\ ui = None /\ race = None
  /\ \E max_wait_time \in 0..MaxWait, check_interval \in 1..MaxInterval,
        callbacks \in { "none", "status", "both" } :
       poll = frame(max_wait_time, check_interval, callbacks)

\* The test succeeds and an attempt is made.
Poll ==
  /\ poll.pc = "loop"
  /\ within_budget(poll)
  /\ poll.attempts <= MaxWait
  /\ \E env \in PollEnvs(poll) : poll' = attempt(poll, env)
  /\ UNCHANGED << svc, coll, dirs, uuids, mkdtemps, response, quiz,
                  user_answers, last,
                  post, shuffled, ui, race >>

\* The test fails: raise Exception("Transcript generation timed out ...").
TimeOut ==
  /\ poll.pc = "loop"
  /\ ~within_budget(poll)
  /\ poll' = [poll EXCEPT !.pc = "raised", !.outcome = "timeout"]
  /\ UNCHANGED << svc, coll, dirs, uuids, mkdtemps, response, quiz,
                  user_answers, last,
                  post, shuffled, ui, race >>

NextPoll == Poll \/ TimeOut

\* The interpreter goes on executing the call: a pass that can be made is made.
SpecPoll == InitPoll /\ [][NextPoll]_vars /\ WF_vars(NextPoll)

\* -------------------------------------------------- claims on the poll
\* C20: every call of _wait_for_transcript ends: it returns a transcript, or
\* raises the timeout error, and then the time budget is used up or as many
\* attempts were made as the attempt budget allows, or raises the error that
\* reached its handler; and whenever it polls again it has slept exactly
\* check_interval since the attempt before.
C20_PollTerminates ==
  /\ <>(poll.pc # "loop")
  /\ [](/\ poll.pc \in { "loop", "returned", "raised" }
        /\ poll.pc = "loop" => poll.outcome = "none"
        /\ poll.pc = "returned" => poll.outcome = "transcript"
        /\ poll.pc = "raised" => poll.outcome \in { "timeout", "error" }
        /\ poll.outcome = "timeout"
             => \/ poll.now - poll.start_time >= poll.max_wait_time
                \/ poll.attempts >= poll.max_attempts
        /\ (poll.pc = "loop" /\ poll.attempts >= 1)
             => poll.slept = poll.check_interval)

\* The timeout was raised on the test of the time budget, after attempts
\* with a sleep between them, more of them than the attempt budget.
C20_Witness ==
  /\ poll.pc = "raised"
  /\ poll.outcome = "timeout"
  /\ poll.attempts >= 2
  /\ poll.attempts > poll.max_attempts
  /\ poll.slept = poll.check_interval
  /\ poll.now - poll.start_time >= poll.max_wait_time
  /\ poll.attempts > poll.max_attempts
  /\ poll.now - poll.start_time >= poll.max_wait_time

\* ========================================================================
\* The social-post generator (services/social_media_generator.py).
\*
\* The content of a post is a sequence of characters: "#", the word
\* characters "a" and "b", and the blank, which is no word character.
\* ========================================================================

\* ------------------------------------------------------------------ bounds
MaxContent == 5      \* characters in what the LLM writes

Platforms ==
  { << "l", "i", "n", "k", "e", "d", "i", "n" >>,
    << "t", "w", "i", "t", "t", "e", "r" >>,
    << "i", "n", "s", "t", "a", "g", "r", "a", "m" >>,
    << "f", "a", "c", "e", "b", "o", "o", "k" >> }

WordChars == { "a", "b" }

\* How many characters at the head of a text match \w.
RECURSIVE word_run(_)
word_run(text) ==
  IF text # << >> /\ Head(text) \in WordChars
  THEN 1 + word_run(Tail(text))
  ELSE 0

\* re.findall(r'#\w+', content): the matches from left to right, each
\* starting where the one before it ended.
RECURSIVE findall(_)
findall(content) ==
  IF content = << >> THEN << >>
  ELSE LET n == word_run(Tail(content)) IN
       IF Head(content) = "#" /\ n > 0
       THEN << SubSeq(content, 1, n + 1) >>
            \o findall(SubSeq(content, n + 2, Len(content)))
       ELSE findall(Tail(content))

\* _extract_hashtags
extract_hashtags(content) == findall(content)

\* SocialMediaPost(platform, content, hashtags, character_count)
SocialMediaPost(platform, content, hashtags, character_count) ==
  [ platform |-> platform, content |-> content, hashtags |-> hashtags,
    character_count |-> character_count ]

\* f"Unable to generate {platform} post"
unable_to_generate(platform) ==
  << "U", "n", "a", "b", "l", "e", " ", "t", "o", " ",
     "g", "e", "n", "e", "r", "a", "t", "e", " " >>
  \o platform \o << " ", "p", "o", "s", "t" >>

\* The try block of _generate_post, lines 125-140.  llmOk: whether the
\* chain runs; content: what it returns.
generate_post_try(platform, llmOk, content) ==
  IF ~llmOk THEN Raises
  ELSE Returns(SocialMediaPost(platform, content, extract_hashtags(content),
                               Len(content)))

\* _generate_post, which each of generate_linkedin_post,
\* generate_twitter_post, generate_instagram_post and
\* generate_facebook_post returns with its platform's name.
generate_post(platform, llmOk, content) ==
  Except(generate_post_try(platform, llmOk, content),
         SocialMediaPost(platform, unable_to_generate(platform), << >>, 0))

Contents == UNION { [1..n -> WordChars \cup { "#", " " }] : n \in 0..MaxContent }

InitSocial ==
  /\ svc = [s \in Sessions |-> Unbuilt]
  /\ coll = [k \in Stores \X Ids |-> << >>]
  /\ dirs = {}
  /\ uuids = 0
  /\ mkdtemps = 0
  /\ last = Call("none", 0, FALSE, FALSE, FALSE, << >>)
  /\ response = None /\ quiz = None /\ user_answers = None /\ poll = None
  /\ post = None /\ shuffled = None /\ ui = None /\ race = None

\* One of the four generate_*_post methods is called.
GeneratePost ==
  /\ post = None
  /\ \E platform \in Platforms, llmOk \in BOOLEAN, content \in Contents :
    LET o == generate_post(platform, llmOk, content) IN
    /\ post' = Some(o.ret)
    /\ last' = Call("generate_post", 0, TRUE, o.exc, o.caught,
                    [llmOk |-> llmOk])
    /\ UNCHANGED << svc, coll, dirs, uuids, mkdtemps, response, quiz,
                    user_answers, poll, shuffled, ui, race >>

SpecSocial == InitSocial /\ [][GeneratePost]_vars

\* --------------------------------------------------- claims on the posts
\* C22 as claimed: every SocialMediaPost the generator returns, for every
\* platform and also when the LLM call failed, has character_count equal to
\* the length of its content.
C22_CountIsLength ==
  post # None => Val(post).character_count = Len(Val(post).content)

\* The positions of the content where a '#word' token starts, and the token
\* that starts there.
TokenStarts(content) ==
  { i \in 1..(Len(content) - 1) :
      content[i] = "#" /\ content[i + 1] \in WordChars }
TokenAt(content, i) ==
  SubSeq(content, i, i + word_run(SubSeq(content, i + 1, Len(content))))
FirstStart(content, token) ==
  CHOOSE i \in TokenStarts(content) :
    /\ TokenAt(content, i) = token
    /\ \A j \in TokenStarts(content) : TokenAt(content, j) = token => i <= j

\* C23 as claimed: the hashtags of a generated post are the '#word' tokens of
\* its content, each exactly once however often the content repeats it, in
\* the order of their first positions in the content.
C23_HashtagsOnce ==
  (post # None /\ last.info.llmOk) =>
    LET content == Val(post).content
        hashtags == Val(post).hashtags
    IN /\ { hashtags[i] : i \in 1..Len(hashtags) }
            = { TokenAt(content, i) : i \in TokenStarts(content) }
       /\ \A i, j \in 1..Len(hashtags) :
            i < j => /\ hashtags[i] # hashtags[j]
                     /\ FirstStart(content, hashtags[i])
                          < FirstStart(content, hashtags[j])

\* ========================================================================
\* QuizUtils.shuffle_quiz_options (utils/helpers.py).
\* ========================================================================

\* ------------------------------------------------------------------ bounds
MaxShuffled == 2     \* questions of the quiz that is shuffled

\* The orders random.shuffle can leave n items in: new position -> old one.
Orders(n) ==
  { order \in [1..n -> 1..n] :
      \A i, j \in 1..n : i # j => order[i] # order[j] }

\* random.shuffle(x), in place: x after it, for the order drawn.
shuffle(x, order) == [ i \in 1..Len(x) |-> x[order[i]] ]

shuffle_question_keeping_index(question, order) ==
  QuizQuestion(question.question, shuffle(question.options, order),
               question.correct_answer, question.explanation)

\* The body of the loop over quiz.questions, lines 80-104.
shuffle_question(question, order) ==
  LET options_with_correctness ==
        shuffle([ i \in 1..Len(question.options) |->
                    << question.options[i],
                       Some(i - 1) = question.correct_answer >> ],
                order)
      marked == { i \in 1..Len(options_with_correctness) :
                    options_with_correctness[i][2] }
  IN QuizQuestion(question.question,
                  [ i \in 1..Len(options_with_correctness) |->
                      options_with_correctness[i][1] ],
                  IF marked = { } THEN None
                  ELSE Some((CHOOSE i \in marked : \A j \in marked : j <= i) - 1),
                  question.explanation)

\* shuffle_quiz_options(quiz, seed): the Quiz returned and the quiz passed,
\* as it is after the call.  orders[i]: the order drawn for question i.
shuffle_quiz_options(q, orders) ==
  LET shuffled_questions ==
        [ i \in 1..Len(q.questions) |->
            shuffle_question(q.questions[i], orders[i]) ]
  IN [ ret |-> Quiz(q.title, shuffled_questions, Len(shuffled_questions)),
       quiz |-> q ]

\* Questions as the parser builds them: four options, also repeated ones,
\* and an index among 0..3.
ShuffledQuestions ==
  { QuizQuestion(<< "Q" >>, << << "a" >>, << "b" >>, << "c" >>, << "d" >> >>,
                 Some(0), << "e" >>),
    QuizQuestion(<< "R" >>, << << "a" >>, << "b" >>, << "c" >>, << "d" >> >>,
                 Some(3), << >>),
    QuizQuestion(<< "S" >>, << << "a" >>, << "a" >>, << "b" >>, << "c" >> >>,
                 Some(1), << >>) }

InitShuffle ==
  /\ svc = [s \in Sessions |-> Unbuilt]
  /\ coll = [k \in Stores \X Ids |-> << >>]
  /\ dirs = {}
  /\ uuids = 0
  /\ mkdtemps = 0
  /\ last = Call("none", 0, FALSE, FALSE, FALSE, << >>)
  /\ response = None /\ user_answers = None /\ poll = None
  /\ post = None /\ shuffled = None /\ ui = None /\ race = None
  /\ \E n \in 1..MaxShuffled :
     \E questions \in [1..n -> ShuffledQuestions] :
       quiz = Some(Quiz(<< "Quiz: " >>, questions, n))

\* QuizUtils.shuffle_quiz_options(quiz) is called, with a seed or without.
ShuffleQuizOptions ==
  /\ shuffled = None
  /\ \E orders \in [1..Len(Val(quiz).questions) -> Orders(4)] :
       LET o == shuffle_quiz_options(Val(quiz), orders) IN
       /\ shuffled' = Some(o.ret)
       /\ quiz' = Some(o.quiz)
       /\ last' = Call("shuffle_quiz_options", 0, TRUE, FALSE, FALSE, << >>)
       /\ UNCHANGED << svc, coll, dirs, uuids, mkdtemps, response,
                       user_answers, poll, post, ui, race >>

SpecShuffle == InitShuffle /\ [][ShuffleQuizOptions]_vars

\* ------------------------------------------------- claims on the shuffle
\* How often an option stands among the options.
Occurrences(options, option) ==
  Cardinality({ i \in 1..Len(options) : options[i] = option })

\* C24: shuffle_quiz_options, on a quiz whose questions have a correct_answer
\* among 0..3, leaves the quiz passed as it was and returns a quiz with the
\* same number of questions and total_questions; its i-th question has the
\* text and the explanation of the i-th question passed, the same options
\* each as often as there, in some order, and a correct_answer that is the
\* index, among the shuffled options, of the option that was correct.
C24_ShuffleTracksAnswer ==
  [][ last'.op = "shuffle_quiz_options" =>
        /\ quiz' = quiz
        /\ LET q == Val(quiz)
               s == Val(shuffled')
           IN /\ s.total_questions = q.total_questions
              /\ Len(s.questions) = Len(q.questions)
              /\ \A i \in 1..Len(q.questions) :
                   LET a == q.questions[i]
                       b == s.questions[i]
                   IN /\ b.question = a.question
                      /\ b.explanation = a.explanation
                      /\ Len(b.options) = Len(a.options)
                      /\ \A j \in 1..Len(a.options) :
                           Occurrences(b.options, a.options[j])
                             = Occurrences(a.options, a.options[j])
                      /\ b.correct_answer \in { Some(n) : n \in 0..3 }
                      /\ b.options[Val(b.correct_answer) + 1]
                           = a.options[Val(a.correct_answer) + 1] ]_vars

\* The correct option of the first question, the last of its four, came
\* first in the shuffled question.
C24_Witness ==
  /\ last.op = "shuffle_quiz_options"
  /\ Val(quiz).questions[1].correct_answer = Some(3)
  /\ Val(shuffled).questions[1].correct_answer = Some(0)
  /\ Val(shuffled).questions[1].options[1] = << "d" >>
  /\ Val(shuffled).questions[1].options # Val(quiz).questions[1].options

\* ========================================================================
\* The Streamlit page (main.py): one browser session.
\*
\* ui is st.session_state: rag_key says whether the key 'rag_service' is
\* set and rag_service is None or the RAGService object held, named by its
\* place in svc; video says whether the key 'video' is set; transcript
\* whether the keys 'transcript', 'summary' and 'topics', set together, are
\* set; current_quiz whether 'current_quiz' is.  obtained records that
\* get_transcript has returned a non-empty transcript in this session.
\* ========================================================================

\* How far RAGService.__init__ gets when the page makes one: to its end, or
\* the client's creation raises, or the embeddings' after the client exists.
UIFailures == { 0, 2, 3 }

init_rag_service_unverified(drawn, made, c, ds, failAt, env) ==
  init(drawn, made, c, ds, failAt, env) @@ [ returned |-> TRUE ]

\* init_rag_service(): the object constructed, and whether it is returned
\* (it is when its client is not None; None is returned otherwise).
init_rag_service(drawn, made, c, ds, failAt, env) ==
  LET o == init(drawn, made, c, ds, failAt, env)
  IN o @@ [ returned |-> o.svc.client # None ]

\* Where a newly constructed object goes: not where the object held is.
new_object(state) == IF state.rag_service = Some(1) THEN 2 ELSE 1

quiz_tab_open_on_video(state) == state.video

\* "if 'transcript' in st.session_state", line 662.
quiz_tab_open(state) == state.transcript

InitUI ==
  /\ svc = [s \in Sessions |-> Unbuilt]
  /\ coll = [k \in Stores \X Ids |-> << >>]
  /\ dirs = {}
  /\ uuids = 0
  /\ mkdtemps = 0
  /\ last = Call("none", 0, FALSE, FALSE, FALSE, << >>)
  /\ response = None /\ quiz = None /\ user_answers = None /\ poll = None
  /\ post = None /\ shuffled = None /\ race = None
  /\ ui = [ rag_key |-> FALSE, rag_service |-> None, video |-> FALSE,
            transcript |-> FALSE, current_quiz |-> FALSE,
            obtained |-> FALSE ]

\* init_rag_service() is called and its result put in
\* st.session_state.rag_service: whatever it is (always), or when it is an
\* object.
InitRag(op, always) ==
  /\ uuids < Cardinality(Ids)
  /\ \E failAt \in UIFailures :
     \E env \in LET t == init_try(uuids, mkdtemps, dirs, failAt)
                IN CleanupEnvs(t.svc, t.dirs, IsoScripts) :
       LET o == init_rag_service(uuids, mkdtemps, coll, dirs, failAt, env)
           n == new_object(ui)
       IN /\ svc' = [svc EXCEPT ![n] = o.svc]
          /\ coll' = o.coll
          /\ dirs' = o.dirs
          /\ uuids' = uuids + 1
          /\ mkdtemps' = o.made
          /\ ui' = [ui EXCEPT !.rag_key = TRUE,
                              !.rag_service =
                                 IF ~(always \/ o.returned) THEN @
                                 ELSE IF o.returned THEN Some(n) ELSE None]
          /\ last' = Call(op, n, o.returned, FALSE, o.caught,
                          [failAt |-> failAt])
          /\ UNCHANGED << response, quiz, user_answers, poll,
                          post, shuffled, race >>

\* The first run of main(): lines 218-226.
Start ==
  /\ ~ui.rag_key
  /\ InitRag("main", TRUE)

\* The button 'Initialize RAG Service' (lines 269-277, and 648-656).
InitializeRagService ==
  /\ ui.rag_key
  /\ ui.rag_service = None
  /\ InitRag("initialize_rag_service", FALSE)

\* The button 'Clear RAG Database', lines 245-260.
ClearRagDatabase ==
  /\ ui.rag_key
  /\ ui.rag_service # None
  /\ uuids < Cardinality(Ids)
  /\ LET held == Val(ui.rag_service)
         n == new_object(ui)
     IN \E env1 \in CleanupEnvs(svc[held], dirs, IsoScripts) :
        LET cl == cleanup_safely(svc[held], coll, dirs, env1) IN
        \E failAt \in UIFailures :
        \E env2 \in LET t == init_try(uuids, mkdtemps, cl.dirs, failAt)
                    IN CleanupEnvs(t.svc, t.dirs, IsoScripts) :
          LET o == init_rag_service(uuids, mkdtemps, cl.coll, cl.dirs,
                                    failAt, env2)
          IN /\ svc' = [svc EXCEPT ![held] = cl.svc, ![n] = o.svc]
             /\ coll' = o.coll
             /\ dirs' = o.dirs
             /\ uuids' = uuids + 1
             /\ mkdtemps' = o.made
             /\ ui' = [ui EXCEPT !.rag_service =
                                    IF o.returned THEN Some(n) ELSE None]
             /\ last' = Call("clear_rag_database", held, o.returned, FALSE,
                             cl.caught \/ o.caught, [failAt |-> failAt])
             /\ UNCHANGED << response, quiz, user_answers, poll,
                             post, shuffled, race >>

\* The button 'Analyze Video' of tab 1, lines 306-342: the upload succeeds
\* or raises.
AnalyzeVideo ==
  /\ ui.rag_key
  /\ \E uploaded \in BOOLEAN :
       /\ ui' = [ui EXCEPT !.video = @ \/ uploaded]
       /\ last' = Call("upload_video", 0, uploaded, FALSE, ~uploaded, << >>)
  /\ UNCHANGED << svc, coll, dirs, uuids, mkdtemps, response, quiz,
                  user_answers, poll, post, shuffled, race >>

\* The button 'Generate Summary' of tab 2, lines 347-412.  llmOk: whether
\* generate_summary and extract_key_topics succeed.
GenerateSummary ==
  /\ ui.rag_key
  /\ ui.video
  /\ \E transcript \in Transcripts, llmOk \in BOOLEAN :
     \E env \in IF transcript # << >> /\ llmOk /\ ui.rag_service # None
                   /\ split_text(transcript) # << >>
                THEN IsoEnvs ELSE {AllOk} :
       LET analysed == transcript # << >> /\ llmOk
           indexed == analysed /\ ui.rag_service # None
           held == IF indexed THEN Val(ui.rag_service) ELSE 0
           o == create_vector_database(svc[held], coll, transcript, env)
       IN /\ indexed => \A k \in DOMAIN o.coll : Len(o.coll[k]) <= MaxChunks
          /\ svc' = IF indexed THEN [svc EXCEPT ![held] = o.svc] ELSE svc
          /\ coll' = IF indexed THEN o.coll ELSE coll
          /\ ui' = [ui EXCEPT !.obtained = @ \/ transcript # << >>,
                              !.transcript = @ \/ analysed]
          /\ last' = Call("generate_summary", held,
                          IF indexed THEN o.ret ELSE FALSE, FALSE,
                          transcript # << >> /\ ~llmOk,
                          [ transcript |-> transcript,
                            analysed |-> analysed, indexed |-> indexed ])
  /\ UNCHANGED << dirs, uuids, mkdtemps, response, quiz,
                  user_answers, poll, post, shuffled, race >>

\* The button 'Generate Social Media Posts' of tab 3, lines 419-455.
GenerateSocialPosts ==
  /\ ui.rag_key
  /\ ui.transcript
  /\ last' = Call("generate_social_posts", 0, TRUE, FALSE, FALSE, << >>)
  /\ UNCHANGED << svc, coll, dirs, uuids, mkdtemps, response, quiz,
                  user_answers, poll, post, shuffled, ui, race >>

\* The button 'Search' of tab 4, lines 481-504.
TimestampSearch ==
  /\ ui.rag_key
  /\ ui.video
  /\ last' = Call("timestamp_search", 0, TRUE, FALSE, FALSE, << >>)
  /\ UNCHANGED << svc, coll, dirs, uuids, mkdtemps, response, quiz,
                  user_answers, poll, post, shuffled, ui, race >>

\* A question typed in the chat of tab 5, lines 512-585: shown when the
\* statistics of the object held report more than 0 chunks.
AskQuestion ==
  /\ ui.rag_key
  /\ ui.rag_service # None
  /\ LET held == Val(ui.rag_service) IN
     \E countOk \in BOOLEAN, chainOk \in BOOLEAN :
       /\ get_database_stats(svc[held], coll, countOk).ret.chunks > 0
       /\ LET o == query_video_content(svc[held], FALSE, chainOk) IN
          last' = Call("rag_query", held, o.ret, o.exc, o.caught, << >>)
  /\ UNCHANGED << svc, coll, dirs, uuids, mkdtemps, response, quiz,
                  user_answers, poll, post, shuffled, ui, race >>

\* Tab 6 generates a quiz, lines 662-686: on the first run that finds a
\* transcript and on 'Generate New Quiz'.
GenerateQuizTab ==
  /\ ui.rag_key
  /\ quiz_tab_open(ui)
  /\ ui' = [ui EXCEPT !.current_quiz = TRUE]
  /\ last' = Call("generate_quiz", 0, TRUE, FALSE, FALSE, << >>)
  /\ UNCHANGED << svc, coll, dirs, uuids, mkdtemps, response, quiz,
                  user_answers, poll, post, shuffled, race >>

NextUI ==
  \/ Start
  \/ InitializeRagService
  \/ ClearRagDatabase
  \/ AnalyzeVideo
  \/ GenerateSummary
  \/ GenerateSocialPosts
  \/ TimestampSearch
  \/ AskQuestion
  \/ GenerateQuizTab

SpecUI == InitUI /\ [][NextUI]_vars

\* ----------------------------------------------------- claims on the page
\* C21 as claimed: the summary and the RAG index are made only from a
\* non-empty transcript of an ingested video, and none of social posts,
\* quiz, RAG question and timestamp search runs in a session in which no
\* transcript was obtained.
C21_LinearFlow ==
  /\ (last.op = "generate_summary" /\ (last.info.analysed \/ last.info.indexed))
       => (ui.video /\ ui.obtained /\ last.info.transcript # << >>)
  /\ last.op \in { "generate_social_posts", "generate_quiz", "rag_query",
                   "timestamp_search" }
       => ui.obtained

\* C21 amended: the summary and the RAG index are made only from a non-empty
\* transcript of an ingested video; social posts, quiz and RAG question run
\* only in a session in which a transcript was obtained, and the RAG question
\* only on an object with a vector store; the timestamp search runs only
\* after a video was ingested.
C21_FlowBehindTranscript ==
  /\ (last.op = "generate_summary" /\ (last.info.analysed \/ last.info.indexed))
       => (ui.video /\ ui.obtained /\ last.info.transcript # << >>)
  /\ last.op \in { "generate_social_posts", "generate_quiz", "rag_query" }
       => (ui.video /\ ui.obtained)
  /\ last.op = "rag_query" => svc[last.sess].vectorstore # None
  /\ last.op = "timestamp_search" => ui.video

\* A question was answered from the index of the object held, after a
\* summary was made from a transcript.
C21_Witness ==
  /\ last.op = "rag_query"
  /\ last.ret = "answer"
  /\ ui.transcript
  /\ ui.obtained
  /\ svc[last.sess].retrieval_qa_chain # None

\* C27: after 'Clear RAG Database' the session holds None or an object
\* constructed by this click: its session id is none an earlier object had,
\* its directory is its own and exists, it has a client and neither a
\* vector store nor a chain; the object held before was cleaned up.  And
\* whatever the step, the object the session holds has a client.
C27_ClearNeverKeeps ==
  [][ /\ last'.op = "clear_rag_database" =>
           LET held == svc'[last'.sess] IN
           /\ held.client = None
           /\ held.vectorstore = None
           /\ held.retrieval_qa_chain = None
           /\ ui'.rag_service # None =>
                LET new == svc'[Val(ui'.rag_service)] IN
                /\ Val(ui'.rag_service) # last'.sess
                /\ new.session_id = Some(uuids')
                /\ \A s \in Sessions : new.session_id # svc[s].session_id
                /\ new.temp_dir # None
                /\ Val(new.temp_dir) \in dirs' \ dirs
                /\ new.temp_dir # held.temp_dir
                /\ new.client # None
                /\ new.vectorstore = None
                /\ new.retrieval_qa_chain = None
      /\ ui'.rag_service # None => svc'[Val(ui'.rag_service)].client # None
    ]_vars

\* The database was cleared after an index was built; the directory of the
\* object held before could not be removed, and the session holds a new
\* object.
C27_Witness ==
  /\ last.op = "clear_rag_database"
  /\ ui.rag_service # None
  /\ ui.transcript
  /\ svc[last.sess].temp_dir # None
  /\ Val(svc[last.sess].temp_dir) \in dirs
  /\ svc[Val(ui.rag_service)].client # None

\* ========================================================================
\* Two threads in one RAGService object (services/rag_service.py): one runs
\* cleanup_safely, the other one of query_video_content, get_similar_chunks,
\* get_database_stats, update_chain_parameters.  The object has no lock.  A
\* step is one read or one write of an attribute of the object, with the
\* code that runs on local values before the next one.
\*
\* race.c is where cleanup_safely stands, race.m where the other method
\* stands, race.local the value the method holds between two steps, race.ret
\* what it returned.  race.torn records that the method read None from an
\* attribute it had read a value from; race.wrote_after that
\* update_chain_parameters assigned its chain after line 294 ran.
\* ========================================================================

Methods ==
  { "query_video_content", "get_similar_chunks", "get_database_stats",
    "update_chain_parameters" }

\* The arguments main.py passes to update_chain_parameters.
UpdateArgs == [ temperature |-> Some(2), chain_type |-> None, k |-> Some(3) ]

\* The attribute a method tests first and uses next: lines 137 and 139, 195
\* and 197, 216 and 219-222, 240 and 253.
guarded(method, r) ==
  IF method = "query_video_content" THEN r.retrieval_qa_chain
  ELSE r.vectorstore

\* What a method returns when its test finds nothing.
absent(method) ==
  CASE method = "query_video_content" -> NoContent
    [] method = "get_similar_chunks" -> NoSimilar
    [] method = "get_database_stats" ->
         [status |-> "No database created", chunks |-> 0]
    [] method = "update_chain_parameters" -> FALSE

\* What the handler of a method returns.
on_error(method) ==
  CASE method = "query_video_content" -> QueryError
    [] method = "get_similar_chunks" -> SearchError
    [] method = "get_database_stats" -> [status |-> "Error", chunks |-> 0]
    [] method = "update_chain_parameters" -> FALSE

\* The try block of a method from its second read of the attribute, v, to
\* its return or to its next read or write of an attribute.  ok: whether the
\* library call succeeds.  local: the count, or the chain built.
use_try(method, v, c, ok) ==
  CASE method = "query_video_content" ->
         [local |-> None]
         @@ (IF v = None \/ ~ok THEN Raises ELSE Returns("answer"))
    [] method = "get_similar_chunks" ->
         [local |-> None]
         @@ (IF v = None \/ ~ok THEN Raises
             ELSE IF Min(3, count(c, Val(v))) = 0
             THEN Returns("No similar content found.")
             ELSE Returns("chunks"))
    [] method = "get_database_stats" ->
         [local |-> Some(IF v = None \/ ~ok THEN Unknown ELSE count(c, Val(v)))]
         @@ Returns("goes on")
    [] method = "update_chain_parameters" ->
         IF v = None \/ ~ok THEN [local |-> None] @@ Raises
         ELSE [local |-> Some(RetrievalQA("default", Val(UpdateArgs.k), "stuff",
                                          Val(v)))]
              @@ Returns("goes on")

clear_handle_but_chain(r, at) ==
  CASE at = "vs" -> [r EXCEPT !.vectorstore = None]
    [] at = "chain" -> r
    [] at = "rest" -> [r EXCEPT !.client = None, !.collection = None]

\* Lines 293-296 of cleanup_safely, one assignment at a time.
clear_handle(r, at) ==
  CASE at = "vs" -> [r EXCEPT !.vectorstore = None]
    [] at = "chain" -> [r EXCEPT !.retrieval_qa_chain = None]
    [] at = "rest" -> [r EXCEPT !.client = None, !.collection = None]

\* The object the two threads share: constructed, then indexed with the
\* chain built ("ready"), or without it ("store"), or not indexed ("fresh").
Shared(built) ==
  LET c0 == [k \in Stores \X Ids |-> << >>]
      o == init(0, 0, c0, {}, 0, AllOk)
      env == IF built = "ready" THEN AllOk ELSE [AllOk EXCEPT !.chainOk = FALSE]
      b == create_vector_database(o.svc, o.coll, << "a" >>, env)
  IN IF built = "fresh"
     THEN [ svc |-> o.svc, coll |-> o.coll, dirs |-> o.dirs, made |-> o.made ]
     ELSE [ svc |-> b.svc, coll |-> b.coll, dirs |-> o.dirs, made |-> o.made ]

InitRace ==
  /\ last = Call("none", 0, FALSE, FALSE, FALSE, << >>)
  /\ response = None /\ quiz = None /\ user_answers = None /\ poll = None
  /\ post = None /\ shuffled = None /\ ui = None
  /\ uuids = 1
  /\ \E built \in { "fresh", "ready", "store" }, method \in Methods :
       /\ svc = [s \in Sessions |-> IF s = 1 THEN Shared(built).svc ELSE Unbuilt]
       /\ coll = Shared(built).coll
       /\ dirs = Shared(built).dirs
       /\ mkdtemps = Shared(built).made
       /\ race = [ method |-> method, m |-> "check", c |-> "store",
                   local |-> None, ret |-> None, raised |-> FALSE,
                   torn |-> FALSE, wrote_after |-> FALSE ]

\* cleanup_safely, lines 267-280: the collection is deleted and the vector
\* store set to None.
CleanupStore ==
  /\ race.c = "store"
  /\ LET r == svc[1] IN
     \E collErr \in IF r.vectorstore # None THEN BOOLEAN ELSE {FALSE},
        delOk \in IF r.vectorstore # None /\ r.client # None
                  THEN BOOLEAN ELSE {TRUE} :
       LET cleared == r.vectorstore # None /\ ~collErr IN
       /\ coll' = IF cleared /\ r.client # None /\ delOk
                  THEN delete_collection(coll, Val(r.client),
                                         Val(r.vectorstore).name)
                  ELSE coll
       /\ svc' = [svc EXCEPT ![1].vectorstore = IF cleared THEN None ELSE @]
  /\ race' = [race EXCEPT !.c = "client"]
  /\ UNCHANGED << dirs, uuids, mkdtemps, response, quiz, user_answers, poll,
                  post, shuffled, ui, last >>

\* cleanup_safely, lines 282-292: the client is reset and set to None, the
\* directory removed.
CleanupClient ==
  /\ race.c = "client"
  /\ LET r == [svc[1] EXCEPT !.vectorstore = None] IN
     \E env \in CleanupEnvs(r, dirs, IsoScripts) :
       LET o == cleanup_safely(r, coll, dirs, env) IN
       /\ coll' = o.coll
       /\ dirs' = o.dirs
       /\ svc' = [svc EXCEPT ![1].client = None, ![1].temp_dir = o.svc.temp_dir]
  /\ race' = [race EXCEPT !.c = "vs"]
  /\ UNCHANGED << uuids, mkdtemps, response, quiz, user_answers, poll,
                  post, shuffled, ui, last >>

\* cleanup_safely, lines 293-296: the next of its last assignments.
ClearHandle ==
  /\ race.c \in { "vs", "chain", "rest" }
  /\ svc' = [svc EXCEPT ![1] = clear_handle(@, race.c)]
  /\ race' = [race EXCEPT !.c = CASE @ = "vs" -> "chain"
                                  [] @ = "chain" -> "rest"
                                  [] @ = "rest" -> "done"]
  /\ UNCHANGED << coll, dirs, uuids, mkdtemps, response, quiz, user_answers,
                  poll, post, shuffled, ui, last >>

\* The method tests the attribute: lines 137, 195, 216, 240.
Check ==
  /\ race.m = "check"
  /\ race' = IF guarded(race.method, svc[1]) = None
             THEN [race EXCEPT !.m = "done", !.ret = Some(absent(race.method))]
             ELSE [race EXCEPT !.m = "use"]
  /\ UNCHANGED << svc, coll, dirs, uuids, mkdtemps, response, quiz,
                  user_answers, poll, post, shuffled, ui, last >>

\* The method reads the attribute again and uses what it reads: lines
\* 139-146, 197-208, 219-225, 242-253.  update_chain_parameters has set the
\* temperature before (line 243).
Use ==
  /\ race.m = "use"
  /\ \E ok \in BOOLEAN :
       LET v == guarded(race.method, svc[1])
           t == use_try(race.method, v, coll, ok)
           o == Except(t, on_error(race.method))
       IN race' = [race EXCEPT !.m = IF t.exc \/ t.ret # "goes on"
                                     THEN "done" ELSE "finish",
                               !.local = t.local,
                               !.ret = IF t.exc \/ t.ret # "goes on"
                                       THEN Some(o.ret) ELSE None,
                               !.raised = o.exc,
                               !.torn = v = None]
  /\ svc' = IF race.method = "update_chain_parameters"
            THEN [svc EXCEPT ![1].llm =
                    Some([temperature |-> Val(UpdateArgs.temperature)])]
            ELSE svc
  /\ UNCHANGED << coll, dirs, uuids, mkdtemps, response, quiz, user_answers,
                  poll, post, shuffled, ui, last >>

\* get_database_stats reads session_id and the chain for its result (lines
\* 227-232); update_chain_parameters assigns the chain it built (line 250).
Finish ==
  /\ race.m = "finish"
  /\ IF race.method = "get_database_stats"
     THEN /\ race' = [race EXCEPT
                        !.m = "done",
                        !.ret = Some([ status |-> "Active",
                                       chunks |-> Val(race.local),
                                       session_id |-> Val(svc[1].session_id),
                                       has_retrieval_chain |->
                                         svc[1].retrieval_qa_chain # None ])]
          /\ svc' = svc
     ELSE /\ race' = [race EXCEPT !.m = "done", !.ret = Some(TRUE),
                                  !.wrote_after = race.c \in { "rest", "done" }]
          /\ svc' = [svc EXCEPT ![1].retrieval_qa_chain = race.local]
  /\ UNCHANGED << coll, dirs, uuids, mkdtemps, response, quiz, user_answers,
                  poll, post, shuffled, ui, last >>

NextRace ==
  \/ CleanupStore
  \/ CleanupClient
  \/ ClearHandle
  \/ Check
  \/ Use
  \/ Finish

SpecRace == InitRace /\ [][NextRace]_vars

\* ------------------------------------------------------ claims on the race
\* C28: whatever the interleaving of cleanup_safely with one of the four
\* methods, the method lets no exception out: it returns an answer, what it
\* returns without an index, or what its handler returns.  When both have
\* finished the object has no vector store, and it has no chain unless
\* update_chain_parameters assigned its chain after cleanup_safely had
\* cleared it.
C28_RaceNeverRaises ==
  /\ ~race.raised
  /\ race.m = "done" =>
       CASE race.method = "query_video_content" ->
              Val(race.ret) \in { "answer", NoContent, QueryError }
         [] race.method = "get_similar_chunks" ->
              Val(race.ret) \in { "chunks", "No similar content found.",
                                  NoSimilar, SearchError }
         [] race.method = "get_database_stats" ->
              Val(race.ret).status \in { "Active", "No database created",
                                         "Error" }
         [] race.method = "update_chain_parameters" ->
              Val(race.ret) \in BOOLEAN
  /\ (race.c = "done" /\ race.m = "done") =>
       /\ svc[1].vectorstore = None
       /\ svc[1].retrieval_qa_chain # None =>
            (race.method = "update_chain_parameters" /\ race.wrote_after)

\* query_video_content found a chain at line 137 and None at line 139, where
\* cleanup_safely had cleared it in between; it returned its error text.
C28_Witness ==
  /\ race.c = "done"
  /\ race.m = "done"
  /\ race.method = "query_video_content"
  /\ race.torn
  /\ race.ret = Some(QueryError)
  /\ svc[1].retrieval_qa_chain = None

====
